---- MODULE Spec2Model ----
(***************************************************************************)
(* Agent Run Execution & Recovery Engine of jean (src-tauri/src/chat).     *)
(*                                                                         *)
(* One session is modelled.  A run r of that session is driven either by   *)
(* the thread send_chat_message spawns for it or by the tail task          *)
(* resume_session spawns for it; the external process of run r has pid r.  *)
(***************************************************************************)
EXTENDS Integers, Sequences, FiniteSets, TLC

\* ------------------------------------------------------------------ bounds
MaxRuns == 2
MaxLines == 2
MaxPending == 1
MaxInit == 1

\* ------------------------------------------------------- program constants
StartupTimeout == 120
DeadProcessTimeout == 2
StartupGrace == 5
MeaningfulLen == 10

\* ------------------------------------------------------------------- sets
Runs == 1..MaxRuns
NoPid == 0

RunStatus == {"Running", "Completed", "Cancelled", "Crashed", "Resumable"}
Absent == "Absent"
Terminal == {"Completed", "Cancelled", "Crashed"}

Modes == {"claude", "codex_detached", "codex_attached"}
DetachedModes == {"claude", "codex_detached"}
\* The modes of a turn whose backend is chosen per session: the detached
\* processes and the HTTP call to the OpenCode server.
SessionModes == DetachedModes \cup {"opencode"}

\* Instants at which the clock is sampled (seconds since the tailer started).
Instants == {0, 1, 3, 5, 6, 120, 121}
CoarseInstants == {0, 121}

Rec(k, n) == [k |-> k, n |-> n]

\* Stream records an external process may write, by backend.
ClaudeRecords ==
    {Rec("text", 3), Rec("text", 10), Rec("tool", 0), Rec("blocking", 0),
     Rec("result", 2), Rec("garbage", 0)}
CodexRecords ==
    {Rec("text", 3), Rec("text", 10), Rec("tool", 0), Rec("result", 0),
     Rec("turn_failed", 0), Rec("error_rec", 0), Rec("garbage", 0)}
AllRecords == ClaudeRecords \cup CodexRecords
LeanRecords == {Rec("result", 0), Rec("result", 2)}

\* Resume ids (Claude session id, Codex thread id) a stream may carry, and
\* the models a session may select; 0 stands for none.
NoId == 0
ResumeIds == {1, 2}
Models == {1, 2}
Backends == {"claude", "codex", "opencode"}
InitRecords == {Rec("init", id) : id \in ResumeIds}
SessionRecords ==
    InitRecords \cup {Rec("text", 10), Rec("result", 0), Rec("result", 2)}

\* Correlation ids of approval requests, and the records of an attached
\* Codex process (n is the correlation id of a request).
ApprovalIds == {1, 2}
Decisions == {"accept", "decline"}
ApprovalRecords ==
    {Rec("file_approval", 1), Rec("cmd_approval", 2), Rec("text", 10),
     Rec("result", 0)}

VARIABLES
    metadata,   \* the session's metadata record: run -> [status, pid, amid]
    output,     \* run -> lines of the run's output file
    proc,       \* run -> the run's external process: "none" (not spawned),
                \*        "alive", "dead" (exited), "killed" (signalled)
    registry,   \* the session's Process Registry entry (NoPid when absent)
    pc,         \* run -> position of the thread driving the run
    drv,        \* run -> which driver the thread is ("turn" or "resume")
    mode,       \* run -> execution mode of the run's driver
    tl,         \* run -> the tailer's local variables
    now,        \* the clock
    rs,         \* resume_session: [pc, metadata (loaded copy), todo]
    host,       \* host lifecycle: "scanned" once the recovery scan has run
    session,    \* the session's stored record: resume ids, model, backend
    thread,     \* run -> locals of the thread executing the turn
    tailer,     \* an NdjsonTailer over a file written byte by byte
    server,     \* the managed OpenCode server and its consumers
    cli,        \* the stream-json output of a one-shot CLI call, and the
                \* text extracted from it
    workflow    \* the runs `gh run list` returned, and their failed_count

vars == <<metadata, output, proc, registry, pc, drv, mode, tl, now, rs, host,
          session, thread, tailer, server, cli, workflow>>

\* --------------------------------------------------------------- session
\* A session as create_session leaves it.
NoSession ==
    [claude_session_id |-> NoId, codex_thread_id |-> NoId,
     opencode_session_id |-> NoId, selected_model |-> NoId,
     backend |-> "claude"]

\* The locals of a turn's thread: the resume id it passes to the driver and
\* the number of driver invocations it has made.
NoThread == [resume_id |-> NoId, calls |-> 0]

\* The backend a mode of execution belongs to.
BackendOf(m) ==
    IF m = "claude" THEN "claude"
    ELSE IF m = "opencode" THEN "opencode"
    ELSE "codex"

\* --------------------------------------------------------------- metadata
NoRun == [status |-> Absent, pid |-> NoPid, amid |-> FALSE, resume_sid |-> NoId]

\* with_metadata_mut: load, mutate one run, save, inside the critical section
\* of the session (one atomic step).
SetStatusAs(md, r, st, amid) ==
    IF md[r].status = Absent THEN md
    ELSE [md EXCEPT ![r] = [@ EXCEPT !.status = st, !.amid = amid]]

\* RunLogWriter::complete / cancel / crash
Complete(md, r) == SetStatusAs(md, r, "Completed", TRUE)
Cancel(md, r, amid) == SetStatusAs(md, r, "Cancelled", amid)
Crash(md, r) == SetStatusAs(md, r, "Crashed", md[r].amid)

\* ------------------------------------------------------------ tailer state
\* The tailer's locals.  n_error and n_done count the chat:error and chat:done
\* events emitted for the drive, err_rec records that an explicit backend
\* error record was processed, ret that the loop returned from inside (a
\* blocking tool), and why names the branch that ended the loop.
\* For an attached drive: chan is the approval channel (ids of the decisions
\* sent and not yet received), chan_reg that the channel and the stdin
\* handle are registered for the session, stdin the responses written to
\* the process, n_perm the chat:permission_denied events emitted, awaiting
\* the correlation id of the request being waited on, last_recv the id of
\* the decision that ended that wait, late_ticks the receive timeouts that
\* elapsed in the wait with the registry entry absent.
TailInit(t) ==
    [offset |-> 0, content |-> 0, tools |-> 0, completed |-> FALSE,
     cancelled |-> FALSE, error_emitted |-> FALSE, error_lines |-> 0,
     received |-> FALSE, started_at |-> t, last_output |-> t,
     n_error |-> 0, n_done |-> 0, ret |-> FALSE, err_rec |-> FALSE,
     why |-> "none", resume_id |-> NoId, events |-> <<>>,
     chan |-> <<>>, chan_reg |-> FALSE, stdin |-> {}, n_perm |-> 0,
     awaiting |-> 0, last_recv |-> 0, late_ticks |-> 0]

\* tail_claude_output's for loop with the result text replacing the content.
ClaudeLineResultFirst(t, rec) ==
    LET t1 == [t EXCEPT !.received = TRUE] IN
    CASE rec.k = "garbage" -> [t1 EXCEPT !.error_lines = @ + 1]
      [] rec.k = "init" -> [t1 EXCEPT !.resume_id = rec.n]
      [] rec.k = "text" -> [t1 EXCEPT !.content = @ + rec.n]
      [] rec.k = "tool" -> [t1 EXCEPT !.tools = @ + 1]
      [] rec.k = "blocking" ->
            [t1 EXCEPT !.tools = @ + 1, !.n_done = @ + 1, !.ret = TRUE,
                       !.why = "blocking"]
      [] rec.k = "result" ->
            [t1 EXCEPT !.content = IF rec.n > 0 THEN rec.n ELSE @,
                       !.completed = TRUE]
      [] OTHER -> t1

\* app.emit_all of a UI-facing event while line number t.offset + 1 is handled.
Emit(t, ev) == [t EXCEPT !.events = Append(@, <<t.offset + 1, ev>>)]

\* One line of tail_claude_output's for loop.
ClaudeLine(t, rec) ==
    LET t1 == [t EXCEPT !.received = TRUE] IN
    CASE rec.k = "garbage" -> [t1 EXCEPT !.error_lines = @ + 1]
      [] rec.k = "init" -> [t1 EXCEPT !.resume_id = rec.n]
      [] rec.k = "text" -> Emit([t1 EXCEPT !.content = @ + rec.n], "chunk")
      [] rec.k = "tool" ->
            Emit(Emit([t1 EXCEPT !.tools = @ + 1], "tool_use"), "tool_block")
      [] rec.k = "blocking" ->
            [Emit(Emit(t1, "tool_use"), "tool_block") EXCEPT
                !.tools = @ + 1, !.n_done = @ + 1, !.ret = TRUE,
                !.why = "blocking"]
      [] rec.k = "result" ->
            [t1 EXCEPT !.content = IF @ = 0 THEN rec.n ELSE @,
                       !.completed = TRUE]
      [] OTHER -> t1

\* process_codex_event
process_codex_event(t, rec) ==
    CASE rec.k = "init" -> [t EXCEPT !.resume_id = rec.n]
      [] rec.k = "text" -> Emit([t EXCEPT !.content = @ + rec.n], "chunk")
      [] rec.k = "tool" ->
            Emit(Emit([t EXCEPT !.tools = @ + 1], "tool_use"), "tool_block")
      [] rec.k = "result" -> [t EXCEPT !.completed = TRUE]
      [] rec.k \in {"turn_failed", "error_rec"} ->
            [t EXCEPT !.n_error = @ + 1, !.completed = TRUE,
                      !.error_emitted = TRUE, !.err_rec = TRUE]
      [] OTHER -> t

\* One line of tail_codex_output's for loop.
CodexLine(t, rec) ==
    LET t1 == [t EXCEPT !.received = TRUE] IN
    IF rec.k = "garbage" THEN [t1 EXCEPT !.error_lines = @ + 1]
    ELSE process_codex_event(t1, rec)

\* A for loop that goes on with the lines after a blocking tool call.
RECURSIVE ProcessLinesThrough(_, _, _)
ProcessLinesThrough(m, t, lines) ==
    IF lines = <<>> THEN t
    ELSE ProcessLinesThrough(m,
             [(IF m = "claude" THEN ClaudeLine(t, Head(lines))
               ELSE CodexLine(t, Head(lines))) EXCEPT !.offset = @ + 1],
             Tail(lines))

\* A for loop that handles the lines of a poll from the newest to the oldest.
RECURSIVE ProcessLinesNewestFirst(_, _, _)
ProcessLinesNewestFirst(m, t, lines) ==
    IF lines = <<>> \/ t.ret THEN t
    ELSE LET last == lines[Len(lines)]
         IN ProcessLinesNewestFirst(m,
                [(IF m = "claude" THEN ClaudeLine(t, last)
                  ELSE CodexLine(t, last)) EXCEPT !.offset = @ + 1],
                SubSeq(lines, 1, Len(lines) - 1))

\* The for loop over the lines a poll returned; a blocking tool ends it.
RECURSIVE ProcessLines(_, _, _)
ProcessLines(m, t, lines) ==
    IF lines = <<>> \/ t.ret THEN t
    ELSE ProcessLines(m,
             [(IF m = "claude" THEN ClaudeLine(t, Head(lines))
               ELSE CodexLine(t, Head(lines))) EXCEPT !.offset = @ + 1],
             Tail(lines))

\* ----------------------------------------------------------- NdjsonTailer
\* The bytes a writer appends: two letters and the line terminator.
Newline == "nl"
Bytes == {"a", "b", Newline}

\* The longest file and the longest single append.
MaxFile == 4
MaxChunk == 2

\* The appends of a writer: every non-empty run of at most MaxChunk bytes.
Chunks == UNION {[1..n -> Bytes] : n \in 1..MaxChunk}

\* NdjsonTailer::new_from_start over a file that may not exist yet: nothing
\* read, nothing buffered. `lines` collects what the polls returned and
\* `drained` what drain_buffer returned.
NewTailer ==
    [file |-> <<>>, offset |-> 0, buffer |-> <<>>, lines |-> <<>>,
     drained |-> <<>>, closed |-> FALSE]

\* The scan of a poll: the buffer followed by the new bytes is cut at every
\* line terminator; st.buffer is the line being assembled.
RECURSIVE ScanBytes(_, _)
ScanBytes(st, data) ==
    IF data = <<>> THEN st
    ELSE IF Head(data) = Newline
         THEN ScanBytes([lines |-> Append(st.lines, st.buffer),
                         buffer |-> <<>>], Tail(data))
    ELSE ScanBytes([st EXCEPT !.buffer = Append(@, Head(data))], Tail(data))

\* A scan that also hands out the trailing fragment as a line.
ScanBytesFlushing(st, data) ==
    LET end == ScanBytes(st, data)
    IN IF end.buffer = <<>> THEN end
       ELSE [lines |-> Append(end.lines, end.buffer), buffer |-> <<>>]

\* A poll that reads the bytes past the offset without retaining a fragment.
pollFlushing(t) ==
    LET data == SubSeq(t.file, t.offset + 1, Len(t.file))
        end == ScanBytesFlushing([lines |-> <<>>, buffer |-> t.buffer], data)
    IN [returned |-> end.lines, buffer |-> end.buffer, offset |-> Len(t.file)]

\* The result of NdjsonTailer::poll on tailer state t: the complete lines
\* among the bytes past the offset, the fragment kept, the new offset.
poll(t) ==
    LET data == SubSeq(t.file, t.offset + 1, Len(t.file))
        end == ScanBytes([lines |-> <<>>, buffer |-> t.buffer], data)
    IN [returned |-> end.lines, buffer |-> end.buffer, offset |-> Len(t.file)]

\* The external process appends one chunk to the output file.
WriterAppend(chunk) ==
    /\ Len(tailer.file) + Len(chunk) <= MaxFile
    /\ tailer' = [tailer EXCEPT !.file = @ \o chunk]
    /\ UNCHANGED <<metadata, output, proc, registry, pc, drv, mode, tl, now,
                   rs, host, session, thread, server,
                   cli, workflow>>

\* tailer.poll() in a tailer loop.
TailerPoll ==
    /\ ~tailer.closed
    /\ LET p == poll(tailer)
       IN tailer' = [tailer EXCEPT !.offset = p.offset, !.buffer = p.buffer,
                                   !.lines = @ \o p.returned]
    /\ UNCHANGED <<metadata, output, proc, registry, pc, drv, mode, tl, now,
                   rs, host, session, thread, server,
                   cli, workflow>>

\* tailer.drain_buffer() after the loop: the last use of the tailer.
TailerDrain ==
    /\ ~tailer.closed
    /\ tailer' = [tailer EXCEPT !.drained = tailer.buffer, !.buffer = <<>>,
                                !.closed = TRUE]
    /\ UNCHANGED <<metadata, output, proc, registry, pc, drv, mode, tl, now,
                   rs, host, session, thread, server,
                   cli, workflow>>

\* ------------------------------------------ extract_text_from_stream_json
\* The longest output of a one-shot call, in lines.
MaxOut == 3

\* Strings are sequences of characters; "sp" is a whitespace character.
Space == "sp"
Texts == {<<>>, <<Space>>, <<"a">>}

\* The content blocks of an assistant message: a text block, a tool call
\* named StructuredOutput with its input (a JSON object, named by a number)
\* and a tool call with another name.
Blocks ==
    {[type |-> "text", text |-> t] : t \in Texts}
    \cup {[type |-> "tool_use", name |-> "StructuredOutput", input |-> j] :
            j \in {1, 2}}
    \cup {[type |-> "tool_use", name |-> "Read", input |-> 3]}

\* The lines of the output: one that is no JSON, an assistant message of
\* one or two blocks, a result whose value is a string or a JSON object.
OutLines ==
    {[type |-> "garbage"]}
    \cup {[type |-> "assistant", content |-> c] :
            c \in UNION {[1..n -> Blocks] : n \in 1..2}}
    \cup {[type |-> "result", str |-> TRUE, result |-> <<"r">>],
          [type |-> "result", str |-> TRUE, result |-> <<>>],
          [type |-> "result", str |-> FALSE, result |-> 4]}

NotExtracted == [ok |-> FALSE, val |-> "not extracted"]
NoTextContent == [ok |-> FALSE, val |-> "No text content found"]
NoJson == 0

\* str::trim
RECURSIVE TrimStart(_)
TrimStart(t) ==
    IF t # <<>> /\ Head(t) = Space THEN TrimStart(Tail(t)) ELSE t

RECURSIVE TrimEnd(_)
TrimEnd(t) ==
    IF t # <<>> /\ t[Len(t)] = Space THEN TrimEnd(SubSeq(t, 1, Len(t) - 1))
    ELSE t

Trim(t) == TrimEnd(TrimStart(t))

\* extract_text_from_stream_json: the loop over the blocks of a message.
RECURSIVE ExtractBlocks(_, _)
ExtractBlocks(acc, blocks) ==
    IF blocks = <<>> THEN acc
    ELSE LET b == Head(blocks)
             a1 == IF b.type = "text"
                   THEN [acc EXCEPT !.text_content = @ \o b.text]
                   ELSE IF b.type = "tool_use" /\ b.name = "StructuredOutput"
                   THEN [acc EXCEPT !.structured_output = b.input]
                   ELSE acc
         IN ExtractBlocks(a1, Tail(blocks))

\* extract_text_from_stream_json: one line of the loop.
ExtractLine(acc, line) ==
    CASE line.type = "assistant" -> ExtractBlocks(acc, line.content)
      [] line.type = "result" ->
            IF line.str
            THEN IF acc.text_content = <<>>
                 THEN [acc EXCEPT !.text_content = line.result] ELSE acc
            ELSE IF acc.structured_output = NoJson
                 THEN [acc EXCEPT !.structured_output = line.result] ELSE acc
      [] OTHER -> acc

RECURSIVE ExtractLines(_, _)
ExtractLines(acc, lines) ==
    IF lines = <<>> THEN acc
    ELSE ExtractLines(ExtractLine(acc, Head(lines)), Tail(lines))

\* extract_text_from_stream_json
extract_text_from_stream_json(lines) ==
    LET acc == ExtractLines([text_content |-> <<>>,
                             structured_output |-> NoJson], lines)
    IN IF acc.structured_output # NoJson
       THEN [ok |-> TRUE, val |-> <<"json", acc.structured_output>>]
       ELSE IF acc.text_content = <<>> THEN NoTextContent
       ELSE [ok |-> TRUE, val |-> Trim(acc.text_content)]

\* The CLI writes one more line of its output.
CliWrite(line) ==
    /\ cli.out = NotExtracted
    /\ Len(cli.lines) < MaxOut
    /\ cli' = [cli EXCEPT !.lines = Append(@, line)]
    /\ UNCHANGED <<metadata, output, proc, registry, pc, drv, mode, tl, now,
                   rs, host, session, thread, tailer, server, workflow>>

\* The caller of the one-shot CLI extracts the text of its output.
CliExtract ==
    /\ cli.out = NotExtracted
    /\ cli' = [cli EXCEPT !.out = extract_text_from_stream_json(cli.lines)]
    /\ UNCHANGED <<metadata, output, proc, registry, pc, drv, mode, tl, now,
                   rs, host, session, thread, tailer, server, workflow>>

\* ------------------------------------------------------ list_workflow_runs
\* The longest list of runs `gh run list` returns.
MaxListed == 3

Workflows == {"CI", "Deploy"}
Conclusions == {"success", "failure", "startup_failure", "none"}
WorkflowRuns == [workflow_name : Workflows, conclusion : Conclusions]
NotCounted == -1

\* A count of every failed run of the list.
RECURSIVE CountEveryFailure(_, _, _)
CountEveryFailure(runs, seen, n) ==
    IF runs = <<>> THEN n
    ELSE CountEveryFailure(Tail(runs), seen,
             IF Head(runs).conclusion \in {"failure", "startup_failure"}
             THEN n + 1 ELSE n)

\* list_workflow_runs: the loop that counts the failed latest runs.
RECURSIVE count_failed(_, _, _)
count_failed(runs, seen, n) ==
    IF runs = <<>> THEN n
    ELSE LET run == Head(runs)
             inserted == run.workflow_name \notin seen
         IN count_failed(Tail(runs), seen \cup {run.workflow_name},
                IF inserted
                   /\ run.conclusion \in {"failure", "startup_failure"}
                THEN n + 1 ELSE n)

\* gh lists one more run, older than those listed so far.
GhListsRun(run) ==
    /\ workflow.failed_count = NotCounted
    /\ Len(workflow.runs) < MaxListed
    /\ workflow' = [workflow EXCEPT !.runs = Append(@, run)]
    /\ UNCHANGED <<metadata, output, proc, registry, pc, drv, mode, tl, now,
                   rs, host, session, thread, tailer, server, cli>>

\* list_workflow_runs after the parse of gh's answer.
list_workflow_runs ==
    /\ workflow.failed_count = NotCounted
    /\ workflow' = [workflow EXCEPT
                       !.failed_count = count_failed(workflow.runs, {}, 0)]
    /\ UNCHANGED <<metadata, output, proc, registry, pc, drv, mode, tl, now,
                   rs, host, session, thread, tailer, server, cli>>

\* ------------------------------------------------ managed OpenCode server
\* The number of one-shot calls (naming, summaries) of the host.
MaxShots == 1

\* What cleanup_orphaned_server found at the start of the host.
NoBoot == [file |-> "none", owner_alive |-> FALSE, server_alive |-> FALSE,
           healthy |-> FALSE, killed |-> FALSE]

\* The statics of opencode_server at the start of the host, with the pid
\* file and the server process a previous host may have left behind:
\* USAGE_COUNT, OPENCODE_SERVER (child), the delayed-shutdown threads that
\* are asleep or past their check, the one-shot thread.
NoServer ==
    [count |-> 0, child |-> "none", sleeping |-> 0, checked |-> 0,
     pidfile |-> "none", orphan |-> "none", oneshot |-> "idle", shots |-> 0,
     boot |-> NoBoot]

\* The outcomes of ensure_running when no healthy server answers.
EnsureOutcomes == {"ok", "missing", "spawn_err", "unhealthy"}

\* is_healthy(url): a server answers on the port, ours or one left alone.
is_healthy(s) == s.child = "up" \/ s.orphan = "up"

\* ensure_running: a healthy server is used as it is; otherwise the CLI is
\* spawned, the child stored and the pid file written, and the call fails
\* if the CLI is missing, the spawn fails or the server does not get healthy.
ensure_running(s, outcome) ==
    IF is_healthy(s) THEN [s |-> s, ok |-> TRUE]
    ELSE CASE outcome = "ok" ->
                [s |-> [s EXCEPT !.child = "up", !.pidfile = "rec"],
                 ok |-> TRUE]
           [] outcome = "unhealthy" ->
                [s |-> [s EXCEPT !.child = "sick", !.pidfile = "rec"],
                 ok |-> FALSE]
           [] OTHER -> [s |-> s, ok |-> FALSE]

\* acquire: USAGE_COUNT.fetch_add(1)
fetch_add(s) == [s EXCEPT !.count = @ + 1]

\* A failed acquire that leaves its increment behind.
RollBackNone(s) == s

\* acquire, Err arm: USAGE_COUNT.fetch_sub(1)
RollBack(s) == [s EXCEPT !.count = @ - 1]

\* release: fetch_sub(1), and the last user spawns the delayed shutdown.
release(s) ==
    [s EXCEPT !.count = @ - 1,
              !.sleeping = IF s.count = 1 THEN @ + 1 ELSE @]

\* stop_managed_server_inner
stop_managed_server_inner(s) ==
    IF s.child = "none" THEN s
    ELSE [s EXCEPT !.child = "none", !.pidfile = "none"]

\* The delayed-shutdown thread wakes up and loads USAGE_COUNT.
ShutdownWake ==
    /\ server.sleeping > 0
    /\ server' = [server EXCEPT !.sleeping = @ - 1,
                                !.checked = IF server.count = 0 THEN @ + 1
                                            ELSE @]
    /\ UNCHANGED <<metadata, output, proc, registry, pc, drv, mode, tl, now,
                   rs, host, session, thread, tailer,
                   cli, workflow>>

\* The delayed-shutdown thread, having seen a count of 0, stops the server.
ShutdownStop ==
    /\ server.checked > 0
    /\ server' = [stop_managed_server_inner(server) EXCEPT !.checked = @ - 1]
    /\ UNCHANGED <<metadata, output, proc, registry, pc, drv, mode, tl, now,
                   rs, host, session, thread, tailer,
                   cli, workflow>>

\* execute_one_shot_opencode: the thread enters acquire.
OneShotAcquire ==
    /\ host = "scanned"
    /\ server.oneshot = "idle"
    /\ server.shots < MaxShots
    /\ server' = [fetch_add(server) EXCEPT !.oneshot = "acquiring",
                                           !.shots = @ + 1]
    /\ UNCHANGED <<metadata, output, proc, registry, pc, drv, mode, tl, now,
                   rs, host, session, thread, tailer,
                   cli, workflow>>

\* execute_one_shot_opencode: ensure_running returns inside acquire.
OneShotEnsure(outcome) ==
    /\ server.oneshot = "acquiring"
    /\ LET e == ensure_running(server, outcome)
       IN server' = IF e.ok THEN [e.s EXCEPT !.oneshot = "holding"]
                    ELSE [RollBack(e.s) EXCEPT !.oneshot = "idle"]
    /\ UNCHANGED <<metadata, output, proc, registry, pc, drv, mode, tl, now,
                   rs, host, session, thread, tailer,
                   cli, workflow>>

\* execute_one_shot_opencode: one_shot_opencode_blocking returned (Ok or
\* Err) and release is called.
OneShotRelease ==
    /\ server.oneshot = "holding"
    /\ server' = [release(server) EXCEPT !.oneshot = "idle"]
    /\ UNCHANGED <<metadata, output, proc, registry, pc, drv, mode, tl, now,
                   rs, host, session, thread, tailer,
                   cli, workflow>>

\* The statics of a new host process: the count, the child handle and the
\* threads of the old one are gone; its server, if it had one, runs on as an
\* orphan, and the pid file stays.
Orphaned(s) ==
    [s EXCEPT !.count = 0, !.child = "none", !.sleeping = 0, !.checked = 0,
              !.oneshot = "idle",
              !.orphan = IF s.child # "none" THEN s.child ELSE @]

\* What cleanup_orphaned_server can find: no pid file, an unparseable one,
\* or a record whose Jean pid and server pid are alive or not and whose port
\* answers the health check or not.
BootFacts(s) ==
    IF s.pidfile = "none" THEN {NoBoot}
    ELSE {[NoBoot EXCEPT !.file = "garbage"]}
         \cup {[file |-> "rec", owner_alive |-> o, server_alive |-> a,
                healthy |-> h, killed |-> FALSE] : o, a, h \in BOOLEAN}

\* What is left on the recorded port after the cleanup.
OrphanLeft(b) ==
    IF b.killed THEN "none"
    ELSE IF b.healthy THEN "up"
    ELSE IF b.server_alive THEN "sick"
    ELSE "none"

\* A cleanup that kills every recorded server whose pid is alive.
cleanup_unchecked(s, b) ==
    IF b.file = "none" THEN [s EXCEPT !.boot = b]
    ELSE IF b.file = "garbage" THEN [s EXCEPT !.pidfile = "none", !.boot = b]
    ELSE LET done == [b EXCEPT !.killed = b.server_alive]
         IN [s EXCEPT !.pidfile = "none", !.boot = done,
                      !.orphan = OrphanLeft(done)]

\* cleanup_orphaned_server
cleanup_orphaned_server(s, b) ==
    IF b.file = "none" THEN [s EXCEPT !.boot = b]
    ELSE IF b.file = "garbage" THEN [s EXCEPT !.pidfile = "none", !.boot = b]
    ELSE IF b.owner_alive THEN [s EXCEPT !.boot = b, !.orphan = OrphanLeft(b)]
    ELSE LET done == [b EXCEPT !.killed = b.server_alive /\ b.healthy]
         IN [s EXCEPT !.pidfile = "none", !.boot = done,
                      !.orphan = OrphanLeft(done)]

\* ------------------------------------------------------------------- init
Init ==
    /\ metadata = [r \in Runs |-> NoRun]
    /\ output = [r \in Runs |-> <<>>]
    /\ proc = [r \in Runs |-> "none"]
    /\ registry = NoPid
    /\ pc = [r \in Runs |-> "idle"]
    /\ drv = [r \in Runs |-> "turn"]
    /\ mode = [r \in Runs |-> "claude"]
    /\ tl = [r \in Runs |-> TailInit(0)]
    /\ now = 0
    /\ rs = [pc |-> "idle", metadata |-> [r \in Runs |-> NoRun], todo |-> <<>>]
    /\ host = "scanned"
    /\ session = NoSession
    /\ thread = [r \in Runs |-> NoThread]
    /\ tailer = NewTailer
    /\ server = NoServer
    /\ cli = [lines |-> <<>>, out |-> NotExtracted]
    /\ workflow = [runs |-> <<>>, failed_count |-> NotCounted]

\* --------------------------------------------------- external environment
\* The records the CLI of a mode writes: only an attached Codex process
\* (build mode) sends approval requests.
RecordsOf(m) ==
    IF m = "claude" THEN ClaudeRecords \cup InitRecords
    ELSE IF m = "codex_attached" THEN CodexRecords \cup ApprovalRecords
    ELSE CodexRecords \cup InitRecords
\* Number of records of kind k among ls.
RECURSIVE Count(_, _)
Count(ls, k) ==
    IF ls = <<>> THEN 0
    ELSE (IF Head(ls).k = k THEN 1 ELSE 0) + Count(Tail(ls), k)

\* The external process of run r appends one record to its output file: at
\* most MaxInit records that carry a resume id and MaxLines others.
ProcWrite(r, rec) ==
    /\ proc[r] = "alive"
    /\ IF rec.k = "init" THEN Count(output[r], "init") < MaxInit
       ELSE Len(output[r]) - Count(output[r], "init") < MaxLines
    /\ rec \in RecordsOf(mode[r])
    /\ output' = [output EXCEPT ![r] = Append(@, rec)]
    /\ UNCHANGED <<metadata, proc, registry, pc, drv, mode, tl, now, rs, host, session, thread,
                   tailer, server, cli, workflow>>

\* The external process of run r exits on its own.
ProcExit(r) ==
    /\ proc[r] = "alive"
    /\ proc' = [proc EXCEPT ![r] = "dead"]
    /\ UNCHANGED <<metadata, output, registry, pc, drv, mode, tl, now, rs, host, session, thread,
                   tailer, server, cli, workflow>>

\* Time passes up to the instant t.  Only a detached tailer's loop reads the
\* clock, and it reads differences, so time is advanced while one is looping.
Tick(t) ==
    /\ t > now
    /\ \E r \in Runs : pc[r] = "tail"
    /\ now' = t
    /\ UNCHANGED <<metadata, output, proc, registry, pc, drv, mode, tl, rs, host, session, thread,
                   tailer, server, cli, workflow>>

\* registry::cancel_process, called by cancel_chat_message: removes the
\* session's entry and signals the process it names.
cancel_process ==
    /\ registry # NoPid
    /\ registry' = NoPid
    /\ proc' = [proc EXCEPT ![registry] = IF @ = "alive" THEN "killed" ELSE @]
    /\ UNCHANGED <<metadata, output, pc, drv, mode, tl, now, rs, host, session, thread,
                   tailer, server, cli, workflow>>

\* ------------------------------------------------------ send_chat_message
\* run_log::start_run: allocates the next run of the session, Running.
start_run(md, r) ==
    [md EXCEPT ![r] = [status |-> "Running", pid |-> NoPid, amid |-> FALSE,
                       resume_sid |-> NoId]]

\* The resume id send_chat_message reads for the turn's backend.
StoredResumeId(s, m) ==
    IF m = "claude" THEN s.claude_session_id
    ELSE IF m = "opencode" THEN s.opencode_session_id
    ELSE s.codex_thread_id

\* send_chat_message up to the spawn of the execution thread.
SendChatMessage(r, m) ==
    /\ host = "scanned"
    /\ pc[r] = "idle"
    /\ metadata[r].status = Absent
    /\ \A q \in Runs : q < r => metadata[q].status # Absent
    /\ metadata' = start_run(metadata, r)
    /\ output' = [output EXCEPT ![r] = <<>>]
    /\ pc' = [pc EXCEPT ![r] = "exec"]
    /\ drv' = [drv EXCEPT ![r] = "turn"]
    /\ mode' = [mode EXCEPT ![r] = m]
    /\ tl' = [tl EXCEPT ![r] = TailInit(now)]
    /\ thread' = [thread EXCEPT ![r] =
                    [resume_id |-> StoredResumeId(session, m), calls |-> 0]]
    /\ UNCHANGED <<proc, registry, now, rs, host, session, tailer, server,
                   cli, workflow>>

\* Whether a failed spawn is reported with a chat:error event.
SpawnFailureEmits(m, why) ==
    \/ why = "missing"
    \/ m \in DetachedModes

\* execute_claude_detached / execute_codex_detached up to the spawn.
DriverSpawn(r, why) ==
    /\ pc[r] = "exec"
    /\ mode[r] \in Modes
    /\ IF why = "ok"
       THEN /\ proc' = [proc EXCEPT ![r] = "alive"]
            /\ pc' = [pc EXCEPT ![r] =
                        IF mode[r] = "codex_detached" THEN "pid_cb"
                        ELSE "register"]
            /\ tl' = tl
       ELSE /\ proc' = proc
            /\ pc' = [pc EXCEPT ![r] = "ret_err"]
            /\ tl' = [tl EXCEPT ![r].n_error =
                        IF SpawnFailureEmits(mode[r], why) THEN @ + 1 ELSE @]
    /\ thread' = [thread EXCEPT ![r].calls = @ + 1]
    /\ UNCHANGED <<metadata, output, registry, drv, mode, now, rs, host, session,
                   tailer, server, cli, workflow>>

\* make_pid_callback's closure: persists the pid inside with_metadata_mut.
PidPersist(md, r) ==
    IF md[r].status # Absent THEN [md EXCEPT ![r].pid = r] ELSE md

PidCallback(r) ==
    /\ pc[r] = "pid_cb"
    /\ metadata' = PidPersist(metadata, r)
    /\ pc' = [pc EXCEPT ![r] = "register"]
    /\ UNCHANGED <<output, proc, registry, drv, mode, tl, now, rs, host, session, thread,
                   tailer, server, cli, workflow>>

\* registry::register_process, then the tailer is constructed.
RegisterProcess(r) ==
    /\ pc[r] = "register"
    /\ registry' = r
    /\ pc' = [pc EXCEPT ![r] =
                IF mode[r] = "codex_attached" THEN "atail" ELSE "tail"]
    /\ tl' = [tl EXCEPT ![r] =
                [TailInit(now) EXCEPT !.n_error = tl[r].n_error,
                                      !.chan_reg = (mode[r] = "codex_attached")]]
    /\ UNCHANGED <<metadata, output, proc, drv, mode, now, rs, host, session, thread,
                   tailer, server, cli, workflow>>

\* ------------------------------------------------------- detached tailers
\* registry::is_process_running(session_id)
is_process_running == registry # NoPid

\* detached::is_process_alive(pid)
is_process_alive(r) == proc[r] = "alive"

\* The lines a poll returns: every complete line past the read offset.
Poll(r) == SubSeq(output[r], tl[r].offset + 1, Len(output[r]))

\* A startup tier that gives up on a dead process as soon as the grace is
\* reached, and on a silent one as soon as the startup timeout is reached.
TimedOutAtBound(t, alive) ==
    IF t.received
    THEN ~alive /\ now - t.last_output > DeadProcessTimeout
    ELSE \/ ~alive /\ now - t.started_at >= StartupGrace
         \/ now - t.started_at >= StartupTimeout

\* A post-output tier that gives up on silence alone, dead or alive.
TimedOutOnSilence(t, alive) ==
    IF t.received
    THEN now - t.last_output > DeadProcessTimeout
    ELSE \/ ~alive /\ now - t.started_at > StartupGrace
         \/ now - t.started_at > StartupTimeout

\* A check that has no dead-process tier once output has been received.
TimedOutStartupOnly(t, alive) ==
    /\ ~t.received
    /\ \/ ~alive /\ now - t.started_at > StartupGrace
       \/ now - t.started_at > StartupTimeout

\* The liveness / timeout check at the end of a loop iteration: TRUE when
\* the loop gives up (cancelled = true; break).
TimedOut(t, alive) ==
    IF t.received
    THEN ~alive /\ now - t.last_output > DeadProcessTimeout
    ELSE \/ ~alive /\ now - t.started_at > StartupGrace
         \/ now - t.started_at > StartupTimeout

\* A loop that looks at the registry before it looks for the terminal event.
AfterLinesRegistryFirst(t, alive) ==
    IF ~is_process_running
    THEN [t |-> [t EXCEPT !.cancelled = TRUE, !.why = "registry"],
          pc |-> "post"]
    ELSE IF t.completed
         THEN [t |-> [t EXCEPT !.why = "completed"], pc |-> "post"]
    ELSE IF TimedOut(t, alive)
         THEN [t |-> [t EXCEPT !.cancelled = TRUE, !.why = "timeout"],
               pc |-> "post"]
    ELSE [t |-> t, pc |-> "tail"]

\* A loop that looks at the registry only once output has been received.
AfterLinesPostOutputOnly(t, alive) ==
    IF t.completed THEN [t |-> [t EXCEPT !.why = "completed"], pc |-> "post"]
    ELSE IF t.received /\ ~is_process_running
         THEN [t |-> [t EXCEPT !.cancelled = TRUE, !.why = "registry"],
               pc |-> "post"]
    ELSE IF TimedOut(t, alive)
         THEN [t |-> [t EXCEPT !.cancelled = TRUE, !.why = "timeout"],
               pc |-> "post"]
    ELSE [t |-> t, pc |-> "tail"]

\* The checks that follow the for loop of one iteration, in code order:
\* "post" when the loop breaks, "tail" when it sleeps and polls again.
AfterLines(t, alive) ==
    IF t.completed THEN [t |-> [t EXCEPT !.why = "completed"], pc |-> "post"]
    ELSE IF ~is_process_running
         THEN [t |-> [t EXCEPT !.cancelled = TRUE, !.why = "registry"],
               pc |-> "post"]
    ELSE IF TimedOut(t, alive)
         THEN [t |-> [t EXCEPT !.cancelled = TRUE, !.why = "timeout"],
               pc |-> "post"]
    ELSE [t |-> t, pc |-> "tail"]

\* One pass through the loop body for run r: poll, the for loop over the
\* lines, then the checks.
Iteration(r) ==
    LET lines == Poll(r)
        t0 == IF lines # <<>> THEN [tl[r] EXCEPT !.last_output = now]
              ELSE tl[r]
        t1 == ProcessLines(mode[r], t0, lines)
    IN IF t1.ret THEN [t |-> t1, pc |-> "tail_ok"]
       ELSE AfterLines(t1, is_process_alive(r))

\* One iteration of the loop of tail_claude_output / tail_codex_output.
TailIteration(r) ==
    /\ pc[r] = "tail"
    /\ LET nx == Iteration(r)
       IN /\ tl' = [tl EXCEPT ![r] = nx.t]
          /\ pc' = [pc EXCEPT ![r] = nx.pc]
          \* a blocking tool: the tailer kills the process before it returns
          /\ proc' = IF nx.t.ret THEN [proc EXCEPT ![r] = "killed"] ELSE proc
    /\ UNCHANGED <<metadata, output, registry, drv, mode, now, rs, host, session, thread,
                   tailer, server, cli, workflow>>

\* NdjsonTailer::new_from_start or poll returns Err: the tailer returns Err.
TailIoError(r) ==
    /\ \/ pc[r] = "tail"
       \/ pc[r] = "atail" /\ tl[r].offset = 0
    /\ pc' = [pc EXCEPT ![r] = "tail_err"]
    /\ UNCHANGED <<metadata, output, proc, registry, drv, mode, tl, now, rs, host, session, thread,
                   tailer, server, cli, workflow>>

\* Number of unparseable lines among ls.
RECURSIVE Garbage(_)
Garbage(ls) ==
    IF ls = <<>> THEN 0
    ELSE (IF Head(ls).k = "garbage" THEN 1 ELSE 0) + Garbage(Tail(ls))

\* "Surface CLI errors": the drain after the loop.
Drain(t, lines) ==
    IF t.cancelled \/ (t.content = 0 /\ ~t.received)
    THEN [t EXCEPT !.error_lines = @ + Garbage(lines)]
    ELSE t

\* tail_claude_output after the loop.
ClaudeFinish(t) ==
    LET e == [t EXCEPT !.n_error =
                 IF t.error_lines > 0 /\ t.content = 0 THEN @ + 1 ELSE @]
    IN [e EXCEPT !.n_done = IF ~t.cancelled THEN @ + 1 ELSE @]

\* The error fallbacks shared by tail_codex_output and tail_codex_attached:
\* "process died silently with no content and no error emitted".
CodexSilentDeath(t) ==
    IF ~t.error_emitted /\ ~t.completed /\ t.content = 0 /\ t.cancelled
    THEN [t EXCEPT !.n_error = @ + 1, !.error_emitted = TRUE]
    ELSE t

\* chat:done of the Codex tailers.
CodexDone(t) ==
    IF ~t.cancelled /\ ~t.error_emitted THEN [t EXCEPT !.n_done = @ + 1] ELSE t

\* tail_codex_output after the loop.
CodexFinish(t) ==
    LET e == IF ~t.error_emitted /\ t.error_lines > 0 /\ t.content = 0
             THEN [t EXCEPT !.n_error = @ + 1, !.error_emitted = TRUE]
             ELSE t
    IN CodexDone(CodexSilentDeath(e))

\* The code after the loop of a detached tailer; it returns Ok.
TailFinish(r) ==
    /\ pc[r] = "post"
    /\ LET t == Drain(tl[r], Poll(r))
       IN tl' = [tl EXCEPT ![r] =
                   IF mode[r] = "claude" THEN ClaudeFinish(t)
                   ELSE CodexFinish(t)]
    /\ pc' = [pc EXCEPT ![r] = "tail_ok"]
    /\ UNCHANGED <<metadata, output, proc, registry, drv, mode, now, rs, host, session, thread,
                   tailer, server, cli, workflow>>

\* ------------------------------------------------------- attached tailer
\* send_approval: the response is written to the stdin handle registered
\* for the session, then (id, decision) is sent on the session's channel;
\* Err, and nothing done, when no handle is registered.
send_approval(t, id, decision) ==
    IF t.chan_reg
    THEN [t EXCEPT !.stdin = @ \cup {<<id, decision>>}, !.chan = Append(@, id)]
    ELSE t

\* A read loop that surfaces a file-change request like a command request.
AttachedLineAskingForFiles(t, rec) ==
    LET t1 == [t EXCEPT !.offset = @ + 1] IN
    IF rec.k = "garbage" THEN [t |-> t1, pc |-> "atail"]
    ELSE IF ~is_process_running
         THEN [t |-> [t1 EXCEPT !.cancelled = TRUE, !.why = "registry"],
               pc |-> "apost"]
    ELSE IF rec.k \in {"file_approval", "cmd_approval"}
         THEN [t |-> [t1 EXCEPT !.n_perm = @ + 1, !.awaiting = rec.n,
                                !.last_recv = 0],
               pc |-> "await"]
    ELSE LET t2 == process_codex_event(t1, rec)
         IN IF t2.completed
            THEN [t |-> [t2 EXCEPT !.why = "completed"], pc |-> "apost"]
            ELSE [t |-> t2, pc |-> "atail"]

\* One line read from the pipe by tail_codex_attached.
AttachedLine(t, rec) ==
    LET t1 == [t EXCEPT !.offset = @ + 1] IN
    IF rec.k = "garbage" THEN [t |-> t1, pc |-> "atail"]
    ELSE IF ~is_process_running
         THEN [t |-> [t1 EXCEPT !.cancelled = TRUE, !.why = "registry"],
               pc |-> "apost"]
    ELSE IF rec.k = "file_approval"
         THEN [t |-> send_approval(t1, rec.n, "accept"), pc |-> "atail"]
    ELSE IF rec.k = "cmd_approval"
         THEN [t |-> [t1 EXCEPT !.n_perm = @ + 1, !.awaiting = rec.n,
                                !.last_recv = 0],
               pc |-> "await"]
    ELSE LET t2 == process_codex_event(t1, rec)
         IN IF t2.completed
            THEN [t |-> [t2 EXCEPT !.why = "completed"], pc |-> "apost"]
            ELSE [t |-> t2, pc |-> "atail"]

AttachedRead(r) ==
    /\ pc[r] = "atail"
    /\ tl[r].offset < Len(output[r])
    /\ LET nx == AttachedLine(tl[r], output[r][tl[r].offset + 1])
       IN /\ tl' = [tl EXCEPT ![r] = nx.t]
          /\ pc' = [pc EXCEPT ![r] = nx.pc]
    /\ UNCHANGED <<metadata, output, proc, registry, drv, mode, now, rs, host, session, thread,
                   tailer, server, cli, workflow>>

\* reader.lines() ends: the process has exited and every line was read.
AttachedEof(r) ==
    /\ pc[r] = "atail"
    /\ tl[r].offset = Len(output[r])
    /\ proc[r] \in {"dead", "killed"}
    /\ pc' = [pc EXCEPT ![r] = "apost"]
    /\ tl' = [tl EXCEPT ![r].why = "eof"]
    /\ UNCHANGED <<metadata, output, proc, registry, drv, mode, now, rs, host, session, thread,
                   tailer, server, cli, workflow>>

\* tail_codex_attached after the loop; it returns Ok.
AttachedFinish(r) ==
    /\ pc[r] = "apost"
    /\ tl' = [tl EXCEPT ![r] = CodexDone(CodexSilentDeath(@))]
    /\ pc' = [pc EXCEPT ![r] = "tail_ok"]
    /\ UNCHANGED <<metadata, output, proc, registry, drv, mode, now, rs, host, session, thread,
                   tailer, server, cli, workflow>>

\* ------------------------------------------------------ approval wait
\* A wait that looks at the registry only before it starts to block.
AwaitCheckOnce(t) == [t |-> t, pc |-> "recv"]

\* Top of the wait loop: the registry check.
AwaitCheckStep(t) ==
    IF ~is_process_running
    THEN [t |-> [t EXCEPT !.cancelled = TRUE, !.why = "wait_registry"],
          pc |-> "apost"]
    ELSE [t |-> t, pc |-> "recv"]

\* A receive that takes a disconnected channel for one more timeout.
recv_timeout_retrying(t) ==
    IF t.chan # <<>>
    THEN [t |-> [t EXCEPT !.chan = Tail(@), !.last_recv = Head(t.chan)],
          pc |-> "atail"]
    ELSE [t |-> [t EXCEPT !.late_ticks =
                    IF is_process_running THEN @ ELSE @ + 1],
          pc |-> "await"]

\* approval_rx.recv_timeout(200 ms): Ok with whatever decision heads the
\* channel, Disconnected when it is empty and its sender is dropped, else
\* Timeout and back to the top of the wait loop.
recv_timeout(t) ==
    IF t.chan # <<>>
    THEN [t |-> [t EXCEPT !.chan = Tail(@), !.last_recv = Head(t.chan)],
          pc |-> "atail"]
    ELSE IF ~t.chan_reg
         THEN [t |-> [t EXCEPT !.cancelled = TRUE, !.why = "disconnected"],
               pc |-> "apost"]
    ELSE [t |-> [t EXCEPT !.late_ticks =
                    IF is_process_running THEN @ ELSE @ + 1],
          pc |-> "await"]

AwaitCheck(r) ==
    /\ pc[r] = "await"
    /\ LET nx == AwaitCheckStep(tl[r])
       IN /\ tl' = [tl EXCEPT ![r] = nx.t]
          /\ pc' = [pc EXCEPT ![r] = nx.pc]
    /\ UNCHANGED <<metadata, output, proc, registry, drv, mode, now, rs, host, session, thread,
                   tailer, server, cli, workflow>>

AwaitRecv(r) ==
    /\ pc[r] = "recv"
    /\ LET nx == recv_timeout(tl[r])
       IN /\ tl' = [tl EXCEPT ![r] = nx.t]
          /\ pc' = [pc EXCEPT ![r] = nx.pc]
    /\ UNCHANGED <<metadata, output, proc, registry, drv, mode, now, rs, host, session, thread,
                   tailer, server, cli, workflow>>

\* The approve_codex_command command of the frontend.
approve_codex_command(id, decision) ==
    /\ \E r \in Runs :
          /\ tl[r].chan_reg
          /\ Len(tl[r].chan) < MaxPending
          /\ tl' = [tl EXCEPT ![r] = send_approval(@, id, decision)]
    /\ UNCHANGED <<metadata, output, proc, registry, pc, drv, mode, now, rs, host, session, thread,
                   tailer, server, cli, workflow>>

\* cleanup_approval_channel(session_id) run by another attached drive of
\* the same session: the sender and the stdin handle of the session are
\* dropped while this drive is still tailing.
ForeignCleanup ==
    /\ \E r \in Runs :
          /\ pc[r] \in {"atail", "await", "recv"}
          /\ tl[r].chan_reg
          /\ tl' = [tl EXCEPT ![r].chan_reg = FALSE]
    /\ UNCHANGED <<metadata, output, proc, registry, pc, drv, mode, now, rs, host, session, thread,
                   tailer, server, cli, workflow>>

\* --------------------------------------------------- drivers, after the tail
\* A driver whose Err arm returns without unregistering.
UnregisterOnOkOnly(result, reg) == IF result = "tail_err" THEN reg ELSE NoPid

\* The match on the tailer's result in execute_claude_detached,
\* execute_codex_detached_inner and execute_codex_attached: both arms
\* unregister the session.
UnregisterOn(result, reg) == NoPid

DriverUnregister(r) ==
    /\ drv[r] = "turn"
    /\ pc[r] \in {"tail_ok", "tail_err"}
    /\ registry' = UnregisterOn(pc[r], registry)
    /\ pc' = [pc EXCEPT ![r] =
                IF pc[r] = "tail_err" THEN "ret_err"
                ELSE IF mode[r] = "codex_attached" THEN "wait_child"
                ELSE "ret_ok"]
    /\ tl' = [tl EXCEPT ![r].chan_reg = FALSE]
    /\ UNCHANGED <<metadata, output, proc, drv, mode, now, rs, host, session, thread,
                   tailer, server, cli, workflow>>

\* execute_codex_attached: child.wait(), then the stderr check.
AttachedWait(r, stderr_lines) ==
    /\ pc[r] = "wait_child"
    /\ proc[r] \in {"dead", "killed"}
    /\ tl' = [tl EXCEPT ![r].n_error =
                IF tl[r].content = 0 /\ ~tl[r].cancelled /\ stderr_lines
                THEN @ + 1 ELSE @]
    /\ pc' = [pc EXCEPT ![r] = "ret_ok"]
    /\ UNCHANGED <<metadata, output, proc, registry, drv, mode, now, rs, host, session, thread,
                   tailer, server, cli, workflow>>

\* UnifiedResponse.error_emitted: false for Claude, the tailer's for Codex.
ErrorEmitted(m, t) == m # "claude" /\ t.error_emitted

\* The threshold as the comment words it: more than 10 characters.
has_meaningful_content_gt(t) == t.content > MeaningfulLen

has_meaningful_content(t) == t.content >= MeaningfulLen
has_tool_calls(t) == t.tools > 0

\* A finalization that does not look at error_emitted.
FinalizeIgnoringError(md, r, m, t) ==
    IF t.cancelled /\ ~has_meaningful_content(t) /\ ~has_tool_calls(t)
    THEN Cancel(md, r, FALSE)
    ELSE IF t.cancelled THEN Cancel(md, r, TRUE)
    ELSE Complete(md, r)

\* A finalization without the undo-send branch.
FinalizeWithoutUndoSend(md, r, m, t) ==
    IF ErrorEmitted(m, t) THEN Cancel(md, r, FALSE)
    ELSE IF t.cancelled THEN Cancel(md, r, TRUE)
    ELSE Complete(md, r)

\* The finalization of the run log at the end of send_chat_message.
Finalize(md, r, m, t) ==
    IF ErrorEmitted(m, t) THEN Cancel(md, r, FALSE)
    ELSE IF t.cancelled /\ ~has_meaningful_content(t) /\ ~has_tool_calls(t)
         THEN Cancel(md, r, FALSE)
    ELSE IF t.cancelled THEN Cancel(md, r, TRUE)
    ELSE Complete(md, r)

\* get_sessions: the number of history messages a run record counts for.
message_count(run) ==
    IF run.status = "Cancelled" /\ ~run.amid THEN 0
    ELSE IF run.amid THEN 2
    ELSE 1

\* A retry loop that keeps the resume id for the next invocation.
RetryWithoutResumeKeeping(th) == th

\* The Err arm of the Claude loop when the error names a session that is
\* not found, invalid or expired: the next invocation passes no resume id.
RetryWithoutResume(th) == [th EXCEPT !.resume_id = NoId]

\* The Claude loop of the turn's thread takes the Err arm with such an
\* error while it holds a resume id: the stored id is cleared and the
\* driver is invoked again.  (Any other Err is broken out with: SendFinish.)
ClaudeRetry(r) ==
    /\ drv[r] = "turn"
    /\ mode[r] = "claude"
    /\ pc[r] = "ret_err"
    /\ thread[r].resume_id # NoId
    /\ session' = [session EXCEPT !.claude_session_id = NoId]
    /\ thread' = [thread EXCEPT ![r] = RetryWithoutResume(@)]
    /\ pc' = [pc EXCEPT ![r] = "exec"]
    /\ UNCHANGED <<metadata, output, proc, registry, drv, mode, tl, now, rs, host,
                   tailer, server, cli, workflow>>

\* The Ok arm of the Claude loop: an empty response without usage to a
\* resuming invocation clears the stored id.  (The usage is taken from the
\* result record, so it is there exactly when the tailer completed.)
ClearStale(s, m, th, t) ==
    IF m = "claude" /\ t.content = 0 /\ ~t.completed /\ th.resume_id # NoId
    THEN [s EXCEPT !.claude_session_id = NoId]
    ELSE s

\* The resume id handed to RunLogWriter::complete and cancel.
resume_sid(m, t) ==
    IF BackendOf(m) # "claude" \/ t.resume_id = NoId THEN NoId ELSE t.resume_id

\* complete / cancel persist the resume id they are given, if any.
SetResumeSid(md, r, sid) ==
    IF md[r].status = Absent \/ sid = NoId THEN md
    ELSE [md EXCEPT ![r].resume_sid = sid]

\* The run log at the end of send_chat_message: the terminal call and the
\* resume id passed to it (none in the error_emitted branch).
FinalizeRunLog(md, r, m, t) ==
    IF ErrorEmitted(m, t) THEN Finalize(md, r, m, t)
    ELSE SetResumeSid(Finalize(md, r, m, t), r, resume_sid(m, t))

\* The field of the session that holds the backend's resume id is set.
SetStoredResumeId(s, m, id) ==
    IF m = "claude" THEN [s EXCEPT !.claude_session_id = id]
    ELSE IF m = "opencode" THEN [s EXCEPT !.opencode_session_id = id]
    ELSE [s EXCEPT !.codex_thread_id = id]

\* An update of the session that stores every resume id the stream carried.
StoreResumeIdAlways(s, m, t) ==
    IF t.resume_id # NoId THEN SetStoredResumeId(s, m, t.resume_id) ELSE s

\* The session at the end of send_chat_message: nothing after an emitted
\* error; in the undo-send branch the id is stored if there is one;
\* otherwise it is stored only if the response has content.
StoreResumeId(s, m, t) ==
    IF ErrorEmitted(m, t) THEN s
    ELSE IF t.cancelled /\ ~has_meaningful_content(t) /\ ~has_tool_calls(t)
         THEN IF t.resume_id # NoId
              THEN SetStoredResumeId(s, m, t.resume_id) ELSE s
    ELSE IF t.resume_id # NoId /\ t.content > 0
         THEN SetStoredResumeId(s, m, t.resume_id)
    ELSE s

\* The ways execute_opencode_http ends between acquire and the POST.
OpenCodeRequestOutcomes == {"ok", "client", "create", "providers"}

\* The ways the posted message ends.
OpenCodeResponseOutcomes == {"ok", "send", "status", "parse"}

\* The parts of a response of the OpenCode server.
OpenCodeParts ==
    {Rec("text", 3), Rec("text", 10), Rec("tool", 0), Rec("step-finish", 0)}

\* The responses of the OpenCode server: at most MaxLines parts.
OpenCodeResponses == UNION {[1..n -> OpenCodeParts] : n \in 0..MaxLines}

\* execute_opencode_http's loop over the parts of the response.
RECURSIVE OpenCodePartsLoop(_, _)
OpenCodePartsLoop(t, parts) ==
    IF parts = <<>> THEN t
    ELSE LET part == Head(parts)
             t1 == CASE part.k = "text" -> [t EXCEPT !.content = @ + part.n]
                      [] part.k = "tool" -> [t EXCEPT !.tools = @ + 1]
                      [] OTHER -> t
         IN OpenCodePartsLoop(t1, Tail(parts))

\* execute_opencode_http enters opencode_server::acquire: the usage count
\* is incremented before ensure_running is called.
OpenCodeAcquire(r) ==
    /\ drv[r] = "turn"
    /\ mode[r] = "opencode"
    /\ pc[r] = "exec"
    /\ thread' = [thread EXCEPT ![r].calls = @ + 1]
    /\ server' = fetch_add(server)
    /\ pc' = [pc EXCEPT ![r] = "oc_acq"]
    /\ UNCHANGED <<metadata, output, proc, registry, drv, mode, tl, now, rs,
                   host, session, tailer, cli, workflow>>

\* ensure_running returns inside acquire: Ok hands the server to the
\* function, which holds it under its ServerReleaseGuard; Err rolls the
\* count back and is returned by `?`.
OpenCodeEnsure(r, outcome) ==
    /\ drv[r] = "turn"
    /\ mode[r] = "opencode"
    /\ pc[r] = "oc_acq"
    /\ LET e == ensure_running(server, outcome)
       IN IF e.ok
          THEN /\ server' = e.s
               /\ pc' = [pc EXCEPT ![r] = "oc_held"]
               /\ tl' = tl
          ELSE /\ server' = RollBack(e.s)
               /\ pc' = [pc EXCEPT ![r] = "ret_err"]
               /\ tl' = [tl EXCEPT ![r].why = "acquire"]
    /\ UNCHANGED <<metadata, output, proc, registry, drv, mode, now, rs, host,
                   session, thread, tailer, cli, workflow>>

\* An execute_opencode_http that registers the turn in the process registry
\* once the server is acquired.
OpenCodeRequestRegistering(r, why, id) ==
    /\ drv[r] = "turn"
    /\ mode[r] = "opencode"
    /\ pc[r] = "oc_held"
    /\ pc' = [pc EXCEPT ![r] = IF why = "ok" THEN "http" ELSE "ret_err"]
    /\ tl' = [tl EXCEPT ![r].why = why]
    /\ server' = IF why = "ok" THEN server ELSE release(server)
    /\ registry' = IF why = "ok" THEN r ELSE registry
    /\ UNCHANGED <<metadata, output, proc, drv, mode, now, rs, host, session,
                   thread, tailer, cli, workflow>>

\* execute_opencode_http from the guard to the POST of the message: the
\* client is built, the session created unless the thread has one, the
\* providers queried; an Err drops the guard.
OpenCodeRequest(r, why, id) ==
    /\ drv[r] = "turn"
    /\ mode[r] = "opencode"
    /\ pc[r] = "oc_held"
    /\ IF why = "ok"
       THEN /\ pc' = [pc EXCEPT ![r] = "http"]
            /\ tl' = [tl EXCEPT ![r].resume_id =
                        IF thread[r].resume_id # NoId THEN thread[r].resume_id
                        ELSE id]
            /\ server' = server
       ELSE /\ pc' = [pc EXCEPT ![r] = "ret_err"]
            /\ tl' = [tl EXCEPT ![r].why = why]
            /\ server' = release(server)
    /\ UNCHANGED <<metadata, output, proc, registry, drv, mode, now, rs, host,
                   session, thread, tailer, cli, workflow>>

\* execute_opencode_http from the answer to the POST on: a failed request or
\* an unreadable body is an Err, a non-success status an Err after
\* chat:error, and a response is walked part by part and ends with chat:done.
\* The guard is dropped on every return.
OpenCodeResponse(r, why, parts) ==
    /\ drv[r] = "turn"
    /\ mode[r] = "opencode"
    /\ pc[r] = "http"
    /\ IF why = "ok"
       THEN /\ pc' = [pc EXCEPT ![r] = "ret_ok"]
            /\ tl' = [tl EXCEPT ![r] =
                        [OpenCodePartsLoop(@, parts) EXCEPT
                            !.n_done = @ + 1, !.received = TRUE]]
       ELSE /\ pc' = [pc EXCEPT ![r] = "ret_err"]
            /\ tl' = [tl EXCEPT ![r].why = why,
                                ![r].n_error = IF why = "status" THEN @ + 1
                                               ELSE @]
    /\ server' = release(server)
    /\ UNCHANGED <<metadata, output, proc, registry, drv, mode, now, rs, host,
                   session, thread, tailer, cli, workflow>>

\* The steps of an HTTP turn's thread: execute_opencode_http.
OpenCodeDrive(r) ==
    \/ OpenCodeAcquire(r)
    \/ \E outcome \in EnsureOutcomes : OpenCodeEnsure(r, outcome)
    \/ \E why \in OpenCodeRequestOutcomes, id \in ResumeIds :
           OpenCodeRequest(r, why, id)
    \/ \E why \in OpenCodeResponseOutcomes, parts \in OpenCodeResponses :
           OpenCodeResponse(r, why, parts)

\* The synthetic assistant line send_chat_message appends to the output file
\* of an OpenCode turn.
SyntheticLine(out, m, t) ==
    IF m = "opencode" THEN Append(out, Rec("text", t.content)) ELSE out

\* send_chat_message after rx.await: Err is returned by `??`, Ok is finalized.
\* (The Ok arm of the thread's loop is taken just before.)
SendFinish(r) ==
    /\ drv[r] = "turn"
    /\ pc[r] \in {"ret_ok", "ret_err"}
    /\ output' = IF pc[r] = "ret_ok"
                 THEN [output EXCEPT ![r] = SyntheticLine(@, mode[r], tl[r])]
                 ELSE output
    /\ metadata' = IF pc[r] = "ret_ok"
                   THEN FinalizeRunLog(metadata, r, mode[r], tl[r])
                   ELSE metadata
    /\ session' = IF pc[r] = "ret_ok"
                  THEN StoreResumeId(
                           ClearStale(session, mode[r], thread[r], tl[r]),
                           mode[r], tl[r])
                  ELSE session
    /\ pc' = [pc EXCEPT ![r] = IF pc[r] = "ret_ok" THEN "done" ELSE "failed"]
    /\ UNCHANGED <<proc, registry, drv, mode, tl, now, rs, host, thread, tailer,
                   server, cli, workflow>>

\* set_session_model that clears no resume id.
SetModelKeeping(s, model) == [s EXCEPT !.selected_model = model]

\* set_session_model's closure over the session.
SetModel(s, model) ==
    [(IF s.selected_model # model
      THEN [s EXCEPT !.claude_session_id = NoId]
      ELSE s) EXCEPT !.selected_model = model]

set_session_model(model) ==
    /\ session' = SetModel(session, model)
    /\ UNCHANGED <<metadata, output, proc, registry, pc, drv, mode, tl, now, rs, host, thread,
                   tailer, server, cli, workflow>>

set_session_backend(backend) ==
    /\ session' = [session EXCEPT !.backend = backend]
    /\ UNCHANGED <<metadata, output, proc, registry, pc, drv, mode, tl, now, rs, host, thread,
                   tailer, server, cli, workflow>>

\* ----------------------------------------------------- restart and recovery
\* The host process exits or is killed: every thread and the registry are
\* lost; detached processes and the files survive. The new host runs
\* cleanup_orphaned_server in its setup.
HostRestart ==
    /\ host' = "booted"
    /\ \E b \in BootFacts(server) :
           server' = cleanup_orphaned_server(Orphaned(server), b)
    /\ registry' = NoPid
    /\ pc' = [r \in Runs |-> IF pc[r] = "idle" THEN "idle" ELSE "gone"]
    /\ tl' = [r \in Runs |-> TailInit(0)]
    /\ now' = 0
    /\ rs' = [pc |-> "idle", metadata |-> [r \in Runs |-> NoRun], todo |-> <<>>]
    /\ proc' = [r \in Runs |->
                  IF mode[r] = "codex_attached" /\ proc[r] = "alive"
                  THEN "killed" ELSE proc[r]]
    /\ thread' = [r \in Runs |-> NoThread]
    /\ UNCHANGED <<metadata, output, drv, mode, session, tailer, cli, workflow>>

\* A scan that leaves a Running run alone when it has no recorded pid.
recover_runs_with_pid(md) ==
    [r \in Runs |->
        IF md[r].status = "Running" /\ md[r].pid # NoPid
        THEN [md[r] EXCEPT !.status =
                 IF proc[md[r].pid] = "alive" THEN "Resumable" ELSE "Crashed"]
        ELSE md[r]]

\* run_log::recover_incomplete_runs
recover_incomplete_runs(md) ==
    [r \in Runs |->
        IF md[r].status = "Running"
        THEN [md[r] EXCEPT !.status =
                 IF md[r].pid # NoPid /\ proc[md[r].pid] = "alive"
                 THEN "Resumable" ELSE "Crashed"]
        ELSE md[r]]

\* check_resumable_sessions, called once by the frontend at startup.
check_resumable_sessions ==
    /\ host = "booted"
    /\ metadata' = recover_incomplete_runs(metadata)
    /\ host' = "scanned"
    /\ UNCHANGED <<output, proc, registry, pc, drv, mode, tl, now, rs, session,
                   thread, tailer, server, cli, workflow>>

\* --------------------------------------------------------- resume_session
RECURSIVE ResumableFrom(_, _)
ResumableFrom(md, r) ==
    IF r > MaxRuns THEN <<>>
    ELSE (IF md[r].status = "Resumable" /\ md[r].pid # NoPid
          THEN <<r>> ELSE <<>>) \o ResumableFrom(md, r + 1)

\* resumable_runs: the Resumable runs with a recorded pid, in order.
resumable_runs(md) == ResumableFrom(md, 1)

\* load_metadata and the filter; returns at once when nothing is resumable.
ResumeLoad ==
    /\ host = "scanned"
    /\ rs.pc = "idle"
    /\ resumable_runs(metadata) # <<>>
    /\ rs' = [pc |-> "loop", metadata |-> metadata,
              todo |-> resumable_runs(metadata)]
    /\ UNCHANGED <<metadata, output, proc, registry, pc, drv, mode, tl, now, host, session, thread,
                   tailer, server, cli, workflow>>

\* The copy of the metadata resume_session saves for run r.
MarkRunning(local, current, r) == [local EXCEPT ![r].status = "Running"]

\* "Mark the run as Running again": mutate the loaded copy, save_metadata.
ResumeMark ==
    /\ rs.pc = "loop"
    /\ LET r == Head(rs.todo)
           m == MarkRunning(rs.metadata, metadata, r)
       IN /\ rs' = [rs EXCEPT !.metadata = m, !.pc = "spawn"]
          /\ metadata' = m
    /\ UNCHANGED <<output, proc, registry, pc, drv, mode, tl, now, host, session, thread,
                   tailer, server, cli, workflow>>

\* register_process, then the tail task is spawned.
ResumeSpawn ==
    /\ rs.pc = "spawn"
    /\ LET r == Head(rs.todo)
       IN /\ registry' = rs.metadata[r].pid
          /\ pc' = [pc EXCEPT ![r] = "tail"]
          /\ drv' = [drv EXCEPT ![r] = "resume"]
          /\ mode' = [mode EXCEPT ![r] =
                        IF @ = "claude" THEN "claude" ELSE "codex_detached"]
          /\ tl' = [tl EXCEPT ![r] = TailInit(now)]
          /\ rs' = [rs EXCEPT !.todo = Tail(@),
                              !.pc = IF Tail(rs.todo) = <<>> THEN "idle"
                                     ELSE "loop"]
    /\ UNCHANGED <<metadata, output, proc, now, host, session, thread, tailer,
                   server, cli, workflow>>

\* The tail task: unregister after the tailer returned (Ok or Err).
ResumeUnregister(r) ==
    /\ drv[r] = "resume"
    /\ pc[r] \in {"tail_ok", "tail_err"}
    /\ registry' = UnregisterOn(pc[r], registry)
    /\ tl' = [tl EXCEPT ![r].n_done =
                IF pc[r] = "tail_err" \/ tl[r].cancelled THEN @ + 1 ELSE @]
    /\ pc' = [pc EXCEPT ![r] = IF pc[r] = "tail_ok" THEN "fin_ok" ELSE "fin_err"]
    /\ UNCHANGED <<metadata, output, proc, drv, mode, now, rs, host, session, thread,
                   tailer, server, cli, workflow>>

\* The tail task: RunLogWriter::resume, then complete (Ok) or crash (Err).
ResumeFinalize(r) ==
    /\ drv[r] = "resume"
    /\ pc[r] \in {"fin_ok", "fin_err"}
    /\ metadata' = IF pc[r] = "fin_ok"
                   THEN SetResumeSid(Complete(metadata, r), r, tl[r].resume_id)
                   ELSE Crash(metadata, r)
    /\ pc' = [pc EXCEPT ![r] = "done"]
    /\ UNCHANGED <<output, proc, registry, drv, mode, tl, now, rs, host, session, thread,
                   tailer, server, cli, workflow>>

\* --------------------------------------------------------- specifications
SpawnOutcomes == {"ok", "missing", "spawn_err"}

\* The steps of a detached drive: the thread of one turn, and the tail task
\* of a resumed run from TailIteration on.
DetachedDrive(r) ==
    \/ \E why \in SpawnOutcomes : DriverSpawn(r, why)
    \/ PidCallback(r)
    \/ RegisterProcess(r)
    \/ TailIteration(r)
    \/ TailIoError(r)
    \/ TailFinish(r)
    \/ DriverUnregister(r)
    \/ SendFinish(r)

\* The steps only an attached drive takes.
AttachedDrive(r) ==
    \/ AttachedRead(r)
    \/ AttachedEof(r)
    \/ AttachedFinish(r)
    \/ \E b \in BOOLEAN : AttachedWait(r, b)

Drive(r) == DetachedDrive(r) \/ AttachedDrive(r)

\* The whole engine: concurrent detached turns of the session (their
\* processes write only the terminal record), cancellation, host restarts
\* with the recovery scan, and resume_session.
Next ==
    \/ \E r \in Runs, m \in DetachedModes : SendChatMessage(r, m)
    \/ \E r \in Runs : DetachedDrive(r)
    \/ \E r \in Runs, rec \in LeanRecords : ProcWrite(r, rec)
    \/ \E r \in Runs : ProcExit(r)
    \/ \E t \in CoarseInstants : Tick(t)
    \/ cancel_process
    \/ HostRestart
    \/ check_resumable_sessions
    \/ ResumeLoad
    \/ ResumeMark
    \/ ResumeSpawn
    \/ \E r \in Runs : ResumeUnregister(r)
    \/ \E r \in Runs : ResumeFinalize(r)

Spec == Init /\ [][Next]_vars

\* One turn of the session in full detail: every stream record, every
\* sampled instant.
TurnNext ==
    \/ \E m \in Modes : SendChatMessage(1, m)
    \/ Drive(1)
    \/ \E rec \in AllRecords : ProcWrite(1, rec)
    \/ ProcExit(1)
    \/ \E t \in Instants : Tick(t)
    \/ cancel_process

TurnSpec == Init /\ [][TurnNext]_vars

\* One run through its whole life: the turn, host restarts with the
\* recovery scan, and resume_session with its tail task.
RunNext ==
    \/ TurnNext
    \/ HostRestart
    \/ check_resumable_sessions
    \/ ResumeLoad
    \/ ResumeMark
    \/ ResumeSpawn
    \/ ResumeUnregister(1)
    \/ ResumeFinalize(1)

RunSpec == Init /\ [][RunNext]_vars

\* One attached Codex turn with its approval protocol.
ApprovalNext ==
    \/ SendChatMessage(1, "codex_attached")
    \/ \E why \in SpawnOutcomes : DriverSpawn(1, why)
    \/ RegisterProcess(1)
    \/ TailIoError(1)
    \/ AttachedDrive(1)
    \/ AwaitCheck(1)
    \/ AwaitRecv(1)
    \/ DriverUnregister(1)
    \/ SendFinish(1)
    \/ \E rec \in ApprovalRecords : ProcWrite(1, rec)
    \/ ProcExit(1)
    \/ cancel_process
    \/ \E id \in ApprovalIds, d \in Decisions : approve_codex_command(id, d)
    \/ ForeignCleanup

ApprovalSpec == Init /\ [][ApprovalNext]_vars

\* The thread of run r is executing its turn.
Executing(r) == pc[r] \notin {"idle", "done", "failed", "gone"}
InFlight == \E r \in Runs : Executing(r)

\* One detached turn whose stream carries resume ids, its cancellation, and
\* the commands that change the session's model and backend.
SessionNext ==
    \/ \E m \in SessionModes : SendChatMessage(1, m)
    \/ DetachedDrive(1)
    \/ OpenCodeDrive(1)
    \/ \E rec \in SessionRecords : ProcWrite(1, rec)
    \/ ProcExit(1)
    \/ cancel_process
    \/ \E model \in Models : set_session_model(model)
    \/ \E backend \in Backends : set_session_backend(backend)

SessionSpec == Init /\ [][SessionNext]_vars

\* Two Claude turns of the session, sent one after the other, with the
\* retry loop of the turn's thread.  Their streams carry a resume id and a
\* result with its text.  (A process is followed only while its turn is
\* executing.)
Turns == {1, 2}
RetryRecords == {Rec("init", 1), Rec("result", 2)}
RetryNext ==
    \/ \E r \in Turns : ~InFlight /\ SendChatMessage(r, "claude")
    \/ \E r \in Turns, why \in SpawnOutcomes : DriverSpawn(r, why)
    \/ \E r \in Turns : RegisterProcess(r)
    \/ \E r \in Turns : TailIteration(r)
    \/ \E r \in Turns : TailIoError(r)
    \/ \E r \in Turns : TailFinish(r)
    \/ \E r \in Turns : DriverUnregister(r)
    \/ \E r \in Turns : ClaudeRetry(r)
    \/ \E r \in Turns : SendFinish(r)
    \/ \E r \in Turns, rec \in RetryRecords :
          Executing(r) /\ ProcWrite(r, rec)
    \/ \E r \in Turns : Executing(r) /\ ProcExit(r)

RetrySpec == Init /\ [][RetryNext]_vars

\* A writer and a tailer over one output file.
TailerNext ==
    \/ \E chunk \in Chunks : WriterAppend(chunk)
    \/ TailerPoll
    \/ TailerDrain

TailerSpec == Init /\ [][TailerNext]_vars

\* The consumers of the managed OpenCode server: an HTTP turn of the
\* session, the one-shot calls of the host, and the delayed-shutdown threads
\* the releases start.
ServerNext ==
    \/ SendChatMessage(1, "opencode")
    \/ OpenCodeDrive(1)
    \/ SendFinish(1)
    \/ OneShotAcquire
    \/ \E outcome \in EnsureOutcomes : OneShotEnsure(outcome)
    \/ OneShotRelease
    \/ ShutdownWake
    \/ ShutdownStop
    \/ HostRestart
    \/ check_resumable_sessions

ServerSpec == Init /\ [][ServerNext]_vars

\* The output of a one-shot CLI call and its extraction.
ExtractNext ==
    \/ \E line \in OutLines : CliWrite(line)
    \/ CliExtract

ExtractSpec == Init /\ [][ExtractNext]_vars

\* A list of workflow runs and its count.
WorkflowNext ==
    \/ \E run \in WorkflowRuns : GhListsRun(run)
    \/ list_workflow_runs

WorkflowSpec == Init /\ [][WorkflowNext]_vars

\* ------------------------------------------------------------------ claims
Running == {r \in Runs : metadata[r].status = "Running"}

\* C1: at any time at most one run of the session is in status Running.
C1_AtMostOneRunning == Cardinality(Running) <= 1

\* send_chat_message (drv = "turn") or the resumed tail task (drv =
\* "resume") is past its unregister for run r.
Unregistered(r) ==
    pc[r] \in {"ret_ok", "ret_err", "wait_child", "done", "failed",
               "fin_ok", "fin_err"}

\* A tailer is driving run r, or has returned to a driver that has not
\* unregistered yet.
Driven(r) == pc[r] \in {"tail", "post", "atail", "apost", "tail_ok", "tail_err"}

\* C2: once the tailer of a driver has returned (Ok or Err) and the driver
\* is past its match, the entry the driver registered is gone; and an entry
\* exists only while some run of the session is being driven.
C2_RegistryOnlyWhileDriven ==
    /\ \A r \in Runs : Unregistered(r) => registry # r
    /\ registry # NoPid => \E r \in Runs : Driven(r)

\* The tail task of a resumed run got Err from its tailer and is past its
\* unregister.
C2_Witness == drv[1] = "resume" /\ pc[1] = "fin_err" /\ registry = NoPid

\* C3: whenever a detached tailer is at the top of its loop and the session
\* has no registry entry, this iteration ends the loop at the registry check
\* with cancelled = true, unless the poll brings a terminal event (or a
\* blocking tool, which returns from inside the for loop); no timeout has to
\* elapse, in either tier.
C3_CancelSeenAtRegistryCheck ==
    \A r \in Runs :
        (pc[r] = "tail" /\ ~is_process_running) =>
            LET nx == Iteration(r)
            IN \/ nx.t.completed
               \/ nx.t.ret
               \/ nx.pc = "post" /\ nx.t.cancelled /\ nx.t.why = "registry"

\* The loop left at the registry check in the startup tier, the process
\* being dead for less than the 5 s grace.
C3_Witness ==
    /\ pc[1] = "post"
    /\ tl[1].why = "registry"
    /\ tl[1].cancelled
    /\ ~tl[1].received
    /\ now - tl[1].started_at <= StartupGrace

\* The same in the post-output tier, within the 2 s window.
C3_WitnessPostOutput ==
    /\ pc[1] = "post"
    /\ tl[1].why = "registry"
    /\ tl[1].cancelled
    /\ tl[1].received
    /\ now - tl[1].last_output <= DeadProcessTimeout

AllowedStatusChange(a, b) ==
    \/ a = b
    \/ a = Absent /\ b = "Running"
    \/ a = "Running" /\ b \in {"Completed", "Cancelled", "Crashed", "Resumable"}
    \/ a = "Resumable" /\ b = "Running"
    \/ b = Absent

\* C4: the status of a run changes only along Running -> {Completed,
\* Cancelled, Crashed, Resumable} and Resumable -> Running, the latter only
\* in resume_session; a Completed, Cancelled or Crashed run keeps its status.
\* (A run record that vanishes from the metadata is C5's subject.)
C4_StatusTransitions ==
    [][\A r \in Runs :
          /\ AllowedStatusChange(metadata[r].status, metadata'[r].status)
          /\ (metadata[r].status = "Resumable" /\ metadata'[r].status = "Running")
                => rs.pc = "loop"]_vars

\* C5: no update of the metadata record is dropped by a later write: a
\* run record once written stays, and so do its persisted pid and its
\* assistant message id.
C5_NoUpdateDropped ==
    [][\A r \in Runs :
          /\ metadata[r].status # Absent => metadata'[r].status # Absent
          /\ metadata[r].pid # NoPid => metadata'[r].pid = metadata[r].pid
          /\ metadata[r].amid => metadata'[r].amid]_vars

\* C6: when the external process could not be spawned, the run is in a
\* terminal state by the time send_chat_message has returned its error.
C6_SpawnFailureFinalized ==
    \A r \in Runs :
        (pc[r] = "failed" /\ proc[r] = "none") =>
            metadata[r].status \in Terminal

\* C7: when the external process could not be spawned, the driver has
\* emitted chat:error when it returns Err, and the registry has no entry.
C7_SpawnFailureReported ==
    \A r \in Runs :
        (pc[r] \in {"ret_err", "failed"} /\ proc[r] = "none") =>
            tl[r].n_error >= 1 /\ registry = NoPid

\* C8: once a Codex tailer has processed an explicit backend error record,
\* chat:error has been emitted and the tailer is out of its loop; and
\* send_chat_message finalizes the run as Cancelled.
C8_BackendErrorCancelled ==
    \A r \in Runs :
        tl[r].err_rec =>
            /\ tl[r].n_error >= 1
            /\ pc[r] \notin {"tail", "atail"}
            /\ (drv[r] = "turn" /\ pc[r] = "done")
                  => metadata[r].status = "Cancelled"

C8_Witness ==
    /\ pc[1] = "done"
    /\ tl[1].err_rec
    /\ metadata[1].status = "Cancelled"

\* C9: when the external process has exited on its own having written
\* nothing, and the tailer ended on that (the liveness check of a detached
\* tailer, end-of-stream of the attached one), chat:error has been emitted
\* by the time the driver returns.
C9_SilentDeathReported ==
    \A r \in Runs :
        (/\ pc[r] = "ret_ok"
         /\ output[r] = <<>>
         /\ proc[r] = "dead"
         /\ tl[r].why \in {"timeout", "eof"}) =>
            tl[r].n_error >= 1

\* send_chat_message has returned Ok for a run its tailer reported cancelled.
CancelledTurnDone(r) ==
    drv[r] = "turn" /\ pc[r] = "done" /\ tl[r].cancelled

PersistedCancelled(r) ==
    metadata[r].status = "Cancelled" /\ metadata[r].amid

C12_WaitEndsOnMatchingId ==
    \A r \in Runs :
        tl[r].last_recv # 0 => tl[r].last_recv = tl[r].awaiting

\* C13: in the approval wait, an iteration that finds the registry entry
\* absent ends the wait with cancelled = true, and the registry is looked
\* at again after every receive timeout: never more than one 200 ms timeout
\* elapses in the wait once the entry is gone, whether or not a decision
\* ever arrives.
C13_WaitCancelledWithinOneTick ==
    \A r \in Runs :
        /\ (pc[r] = "await" /\ ~is_process_running) =>
              LET nx == AwaitCheckStep(tl[r])
              IN nx.pc = "apost" /\ nx.t.cancelled
        /\ tl[r].late_ticks <= 1

\* The wait was ended by the registry check that follows the one timeout
\* that elapsed after the cancellation; no decision was ever sent.
C13_Witness ==
    /\ pc[1] = "apost"
    /\ tl[1].why = "wait_registry"
    /\ tl[1].cancelled
    /\ tl[1].late_ticks = 1
    /\ tl[1].stdin = {}

\* The next line the attached read loop takes is a file-change request.
AtFileChangeRequest(r) ==
    /\ pc[r] = "atail"
    /\ tl[r].offset < Len(output[r])
    /\ output[r][tl[r].offset + 1].k = "file_approval"
    /\ is_process_running

C15_DisconnectCancels ==
    \A r \in Runs :
        /\ (pc[r] = "recv" /\ tl[r].chan = <<>> /\ ~tl[r].chan_reg) =>
              LET nx == recv_timeout(tl[r])
              IN nx.pc = "apost" /\ nx.t.cancelled
        /\ tl[r].why = "disconnected" =>
              /\ tl[r].cancelled
              /\ tl[r].n_done = 0
              /\ pc[r] = "done" => metadata[r].status = "Cancelled"

C15_Witness ==
    /\ pc[1] = "done"
    /\ tl[1].why = "disconnected"
    /\ tl[1].n_done = 0
    /\ metadata[1].status = "Cancelled"

\* C16: when the poll of a detached tailer iteration delivers the terminal
\* event, the loop ends there as completed, cancelled = false, although the
\* registry entry is already gone: the registry and liveness checks come
\* after the terminal-event check.
C16_TerminalEventBeforeRegistry ==
    \A r \in Runs :
        /\ (pc[r] = "tail" /\ ~is_process_running) =>
              LET nx == Iteration(r)
              IN nx.t.completed =>
                    /\ ~nx.t.cancelled
                    /\ \/ nx.pc = "post" /\ nx.t.why = "completed"
                       \/ nx.t.ret
        /\ (pc[r] = "post" /\ tl[r].why = "completed") => ~tl[r].cancelled

\* The loop ended on the terminal record of a process that cancel_process
\* had already killed and unregistered.
C16_Witness ==
    /\ pc[1] = "post"
    /\ tl[1].why = "completed"
    /\ ~tl[1].cancelled
    /\ registry = NoPid
    /\ proc[1] = "killed"

\* The iteration of run r that starts now stays with the registry entry
\* present and brings no terminal event and no blocking tool.
PlainIteration(r) ==
    /\ pc[r] = "tail"
    /\ is_process_running
    /\ ~Iteration(r).t.completed
    /\ ~Iteration(r).t.ret

GivesUp(r) ==
    LET nx == Iteration(r)
    IN nx.pc = "post" /\ nx.t.cancelled /\ nx.t.why = "timeout"

KeepsPolling(r) == Iteration(r).pc = "tail"

\* C17: in the startup tier an iteration gives up (cancelled = true) when
\* the process is dead and more than 5 s have passed since the start, or
\* when more than 120 s have passed since the start; otherwise it keeps
\* polling.
C17_StartupTier ==
    \A r \in Runs :
        (PlainIteration(r) /\ ~Iteration(r).t.received) =>
            LET elapsed == now - tl[r].started_at
            IN /\ (~is_process_alive(r) /\ elapsed > 5) => GivesUp(r)
               /\ elapsed > 120 => GivesUp(r)
               /\ (is_process_alive(r) /\ elapsed <= 120) => KeepsPolling(r)
               /\ (~is_process_alive(r) /\ elapsed <= 5) => KeepsPolling(r)

\* The tailer gave up on a silent process that was still alive after the
\* startup timeout.
C17_Witness ==
    /\ pc[1] = "post"
    /\ tl[1].why = "timeout"
    /\ ~tl[1].received
    /\ proc[1] = "alive"
    /\ now - tl[1].started_at > StartupTimeout

\* The tailer is still polling for a process found dead exactly at the 5 s
\* grace.
C17_WitnessGrace ==
    /\ pc[1] = "tail"
    /\ ~tl[1].received
    /\ proc[1] = "dead"
    /\ now - tl[1].started_at = StartupGrace
    /\ is_process_running

\* C18: in the post-output tier an iteration ends the run on a liveness
\* basis exactly when the process is dead and more than 2 s have passed
\* since the last poll that returned lines.
C18_PostOutputTier ==
    \A r \in Runs :
        (PlainIteration(r) /\ Iteration(r).t.received) =>
            LET silence == now - Iteration(r).t.last_output
            IN GivesUp(r) <=> (~is_process_alive(r) /\ silence > 2)

\* The tailer gave up on a dead process more than 2 s after its last line.
C18_Witness ==
    /\ pc[1] = "post"
    /\ tl[1].why = "timeout"
    /\ tl[1].received
    /\ proc[1] = "dead"
    /\ tl[1].last_output > 0
    /\ now - tl[1].last_output > DeadProcessTimeout

\* The lines of run r its tailer has taken from the stream so far.
Processed(r) == SubSeq(output[r], 1, tl[r].offset)

\* The tailer of run r has returned Ok to its driver from after its loop.
TailReturned(r) ==
    /\ drv[r] = "turn"
    /\ pc[r] \in {"tail_ok", "wait_child", "ret_ok", "done"}
    /\ ~tl[r].ret

\* C19: in every tailer each unparseable line taken from the stream is
\* buffered as diagnostic text, and once the tailer has returned a
\* chat:error has been emitted if such a line was taken and the run has no
\* content, and none has been emitted if the run has content (and no
\* explicit backend error record).
C19_GarbageBufferedAndSurfaced ==
    \A r \in Runs :
        /\ tl[r].error_lines >= Garbage(Processed(r))
        /\ TailReturned(r) =>
              /\ (Garbage(Processed(r)) > 0 /\ tl[r].content = 0)
                    => tl[r].n_error >= 1
              /\ (tl[r].content > 0 /\ ~tl[r].err_rec) => tl[r].n_error = 0

\* The text gathered from the text blocks of the records ls.
RECURSIVE TextLen(_)
TextLen(ls) ==
    IF ls = <<>> THEN 0
    ELSE (IF Head(ls).k = "text" THEN Head(ls).n ELSE 0) + TextLen(Tail(ls))

\* The Claude tailer of run r has returned after its loop, completed, and the
\* last record it took is a success record carrying result text.
EndsWithResultText(r) ==
    /\ mode[r] = "claude"
    /\ TailReturned(r)
    /\ tl[r].completed
    /\ tl[r].offset > 0
    /\ Processed(r)[tl[r].offset].k = "result"
    /\ Processed(r)[tl[r].offset].n > 0

\* The records taken before the last one.
Earlier(r) == SubSeq(output[r], 1, tl[r].offset - 1)

\* C20 (as stated): when the stream ends with a success record carrying
\* result text, the run's content is that result text, whatever text was
\* gathered before it.
C20_ResultTextIsContent ==
    \A r \in Runs :
        EndsWithResultText(r) =>
            tl[r].content = Processed(r)[tl[r].offset].n

\* C20 (amended): when the stream ends with a success record carrying result
\* text, the run's content is that result text if nothing was gathered
\* before it, and it is exactly the text of the earlier text blocks if there
\* are any (and no earlier result record): the result text is the fallback.
C20_ResultTextIsFallback ==
    \A r \in Runs :
        EndsWithResultText(r) =>
            LET pre == Earlier(r)
                NoResult == \A i \in 1..Len(pre) : pre[i].k # "result"
            IN /\ (TextLen(pre) = 0 /\ NoResult) =>
                      tl[r].content = Processed(r)[tl[r].offset].n
               /\ (TextLen(pre) > 0 /\ NoResult) =>
                      tl[r].content = TextLen(pre)

\* A Claude run gathered text and then ended with a record carrying result text.
C20_Witness ==
    /\ EndsWithResultText(1)
    /\ TextLen(Earlier(1)) > 0
    /\ tl[1].content = TextLen(Earlier(1))

\* The position in the stream of run r of its first blocking tool call
\* (AskUserQuestion or ExitPlanMode), 0 when there is none.
FirstBlocking(r) ==
    LET S == {i \in 1..Len(output[r]) : output[r][i].k = "blocking"}
    IN IF S = {} THEN 0 ELSE CHOOSE i \in S : \A j \in S : i <= j

\* C21: a Claude tailer that polls a blocking tool call returns from inside
\* its loop, whatever the clock and the process's liveness: the loop never
\* passes that line, and once it has returned the process has been
\* signalled, chat:done was emitted exactly once, cancelled is false, the
\* tool call is counted and no later line was taken.
C21_BlockingToolEndsTailer ==
    \A r \in Runs :
        mode[r] = "claude" =>
            /\ (pc[r] = "tail" /\ FirstBlocking(r) > 0) =>
                   /\ tl[r].offset < FirstBlocking(r)
                   /\ Iteration(r).pc = "tail_ok"
                   /\ Iteration(r).t.offset = FirstBlocking(r)
            /\ pc[r] = "post" => FirstBlocking(r) \notin 1..tl[r].offset
            /\ tl[r].ret =>
                   /\ tl[r].offset = FirstBlocking(r)
                   /\ proc[r] \notin {"alive", "none"}
                   /\ tl[r].n_done = 1
                   /\ ~tl[r].cancelled
                   /\ tl[r].tools >= 1
                   /\ tl[r].why = "blocking"

\* A Claude tailer returned at a blocking tool call with a line after it
\* left in the stream, while the process had not exited and no time had
\* passed.
C21_Witness ==
    /\ mode[1] = "claude"
    /\ tl[1].ret
    /\ pc[1] = "tail_ok"
    /\ proc[1] = "killed"
    /\ Len(output[1]) > tl[1].offset
    /\ now = 0

\* The resume ids stored in a session record.
ResumeIdsOf(s) ==
    <<s.claude_session_id, s.codex_thread_id, s.opencode_session_id>>

\* C22 (as stated): a step that changes the session's model or backend
\* leaves no stored resume id.
C22_SelectionChangeClearsResumeIds ==
    [][(session'.selected_model # session.selected_model
           \/ session'.backend # session.backend)
         => ResumeIdsOf(session') = <<NoId, NoId, NoId>>]_vars

\* C22 (amended): a step that changes the session's model clears the stored
\* Claude session id and keeps the Codex and OpenCode ids; a step that
\* changes the session's backend keeps all three.
C22_ModelChangeClearsClaudeId ==
    [][/\ session'.selected_model # session.selected_model =>
             /\ session'.claude_session_id = NoId
             /\ session'.codex_thread_id = session.codex_thread_id
             /\ session'.opencode_session_id = session.opencode_session_id
       /\ session'.backend # session.backend =>
             ResumeIdsOf(session') = ResumeIdsOf(session)]_vars

\* A Claude turn completed with content and a resume id, which was stored,
\* and a later change of the model has cleared it.
C22_Witness ==
    /\ pc[1] = "done"
    /\ mode[1] = "claude"
    /\ tl[1].completed /\ ~tl[1].cancelled
    /\ tl[1].content > 0
    /\ tl[1].resume_id # NoId
    /\ session.selected_model # NoId
    /\ session.claude_session_id = NoId

\* C23: the thread of a Claude turn invokes the driver at most twice; a
\* second invocation passes no resume id and is made with the session's
\* stored Claude id cleared; and the only way back from a failed invocation
\* to a new one is with a resume id in hand.
C23_RetryOnceWithoutResume ==
    /\ \A r \in Runs :
          /\ thread[r].calls <= 2
          /\ (mode[r] = "claude" /\ Executing(r) /\ thread[r].calls = 2
                 /\ pc[r] # "exec") =>
                /\ thread[r].resume_id = NoId
                /\ session.claude_session_id = NoId
          /\ (mode[r] = "claude" /\ pc[r] = "exec" /\ thread[r].calls = 1) =>
                /\ thread[r].resume_id = NoId
                /\ session.claude_session_id = NoId
          /\ (pc[r] = "exec" /\ thread[r].calls > 0) => thread[r].calls = 1

\* A turn that started with a resume id failed, was retried without it and
\* failed again: the second failure is what the turn returns.
C23_Witness ==
    /\ mode[2] = "claude"
    /\ thread[2].calls = 2
    /\ thread[2].resume_id = NoId
    /\ session.claude_session_id = NoId
    /\ pc[2] = "failed"

\* The retried invocation succeeded and its turn completed.
C23_WitnessRetried ==
    /\ thread[2].calls = 2
    /\ pc[2] = "done"
    /\ metadata[2].status = "Completed"

\* The step in which send_chat_message finalizes run r after a stream that
\* ended with a terminal success record and carried a resume id.
SuccessWithResumeId(r) ==
    /\ pc[r] = "ret_ok" /\ pc'[r] = "done"
    /\ tl[r].completed /\ ~tl[r].cancelled
    /\ ~ErrorEmitted(mode[r], tl[r])
    /\ tl[r].resume_id # NoId

C24_WitnessNoContent ==
    /\ pc[1] = "done"
    /\ mode[1] = "codex_detached"
    /\ metadata[1].status = "Completed"
    /\ tl[1].content = 0
    /\ tl[1].resume_id # NoId
    /\ session.codex_thread_id = NoId

\* C25: the step that finalizes a resumed run makes the terminal call the
\* per-turn path makes for the tailer's outcome (complete after a terminal
\* event, cancel after cancelled = true), and crash after an I/O failure of
\* the tailer.
C25_ResumeFinalizesLikeTurn ==
    [][\A r \in Runs :
          (drv[r] = "resume" /\ pc[r] \in {"fin_ok", "fin_err"}
              /\ pc'[r] = "done") =>
             metadata'[r].status =
                 IF pc[r] = "fin_err" THEN "Crashed"
                 ELSE IF tl[r].cancelled THEN "Cancelled"
                 ELSE "Completed"]_vars

\* C26: the step of the Recovery Scanner leaves no run Running: each
\* Running run becomes Resumable if its recorded pid is alive and Crashed
\* otherwise (also without a recorded pid), every other run is left as it
\* is, and a second pass over the result changes nothing.
C26_ScanLeavesNoRunning ==
    [][(host = "booted" /\ host' = "scanned") =>
          /\ \A r \in Runs :
                /\ metadata'[r].status # "Running"
                /\ metadata[r].status = "Running" =>
                      metadata'[r] =
                         [metadata[r] EXCEPT !.status =
                             IF metadata[r].pid # NoPid
                                /\ is_process_alive(metadata[r].pid)
                             THEN "Resumable" ELSE "Crashed"]
                /\ metadata[r].status # "Running" =>
                      metadata'[r] = metadata[r]
          /\ recover_incomplete_runs(metadata') = metadata']_vars

\* The scan has just run: the run without a live recorded pid is Crashed.
C26_Witness ==
    /\ host = "scanned"
    /\ pc[1] = "gone"
    /\ metadata[1].status = "Crashed"
    /\ metadata[1].pid = NoPid
    /\ proc[1] = "alive"

\* The scan has just run: the run whose recorded pid is alive is Resumable.
C26_WitnessResumable ==
    /\ host = "scanned"
    /\ pc[1] = "gone"
    /\ metadata[1].status = "Resumable"
    /\ proc[1] = "alive"

\* An HTTP turn is inside execute_opencode_http.
InOpenCodeHttp(r) ==
    /\ drv[r] = "turn"
    /\ mode[r] = "opencode"
    /\ pc[r] \in {"exec", "oc_acq", "oc_held", "http"}

\* C27: during an HTTP-mode (OpenCode) turn no process registry entry is
\* created for the session: every step taken while execute_opencode_http
\* runs, the successful return and every error return included, starts with
\* an empty registry and leaves it as it was.
C27_HttpTurnLeavesRegistry ==
    [][\A r \in Runs :
          InOpenCodeHttp(r) => registry = NoPid /\ registry' = registry]_vars

\* An OpenCode turn returned a response with content and was finalized.
C27_Witness ==
    /\ mode[1] = "opencode"
    /\ pc[1] = "done"
    /\ tl[1].content > 0
    /\ metadata[1].status = "Completed"

\* An OpenCode turn failed after chat:error and returned the error.
C27_WitnessError ==
    /\ mode[1] = "opencode"
    /\ pc[1] = "failed"
    /\ tl[1].why = "status"
    /\ tl[1].n_error = 1

\* The UI-facing events the blocks of one stream line cause, in block order.
EventsOf(rec) ==
    CASE rec.k = "text" -> <<"chunk">>
      [] rec.k \in {"tool", "blocking"} -> <<"tool_use", "tool_block">>
      [] OTHER -> <<>>

\* The events of the first n lines of a stream, each with its line number.
RECURSIVE EventsUpTo(_, _)
EventsUpTo(out, n) ==
    IF n = 0 THEN <<>>
    ELSE EventsUpTo(out, n - 1)
         \o [i \in 1..Len(EventsOf(out[n])) |-> <<n, EventsOf(out[n])[i]>>]

\* C28: within one run the UI-facing events are emitted in the order of the
\* stream lines, and of the blocks inside a line, that caused them: the
\* events a tailer has emitted are exactly those of the lines it has handled,
\* line by line, none earlier than an event of an earlier line.
C28_EventsInLineOrder ==
    \A r \in Runs :
        mode[r] \in DetachedModes
            => tl[r].events = EventsUpTo(output[r], tl[r].offset)

\* A tailer handled two lines of different kinds that a single poll returned
\* and emitted their three events.
C28_Witness ==
    /\ mode[1] \in DetachedModes
    /\ pc[1] = "done"
    /\ tl[1].offset = 2
    /\ Len(tl[1].events) = 3
    /\ tl[1].events[1][1] # tl[1].events[3][1]

\* Where the drive of a run executes: send_chat_message starts a thread with
\* std::thread::spawn and awaits its result on a oneshot channel;
\* resume_session starts a task with tauri::async_runtime::spawn and the task
\* calls the tailer itself.
Executor(d) == IF d = "turn" THEN "os_thread" ELSE "async_runtime"

\* A drive is inside a blocking tailer loop.
Tailing(r) == pc[r] \in {"tail", "atail"}

\* C29: every blocking tailer drive, for a new turn and for a resumed run
\* alike, executes on an OS thread dedicated to the run and never on the
\* host's shared async runtime.
C29_TailerOnDedicatedThread ==
    \A r \in Runs : Tailing(r) => Executor(drv[r]) = "os_thread"

\* The positions of the line terminators among bytes.
Terminators(bytes) == {i \in 1..Len(bytes) : bytes[i] = Newline}

\* The newline-terminated line that ends at position i of bytes.
LineEndingAt(bytes, i) ==
    LET before == {j \in Terminators(bytes) : j < i}
        start == IF before = {} THEN 1
                 ELSE (CHOOSE j \in before : \A k \in before : k <= j) + 1
    IN SubSeq(bytes, start, i - 1)

\* The newline-terminated lines of bytes, in order.
LinesWritten(bytes) ==
    LET ends == Terminators(bytes)
        nth(n) == CHOOSE i \in ends : Cardinality({j \in ends : j <= i}) = n
    IN [n \in 1..Cardinality(ends) |-> LineEndingAt(bytes, nth(n))]

\* The unterminated bytes at the end of bytes.
Fragment(bytes) ==
    LET ends == Terminators(bytes)
        last == IF ends = {} THEN 0
                ELSE CHOOSE i \in ends : \A k \in ends : k <= i
    IN SubSeq(bytes, last + 1, Len(bytes))

\* C30: for any way the writer splits its output into appends, the lines
\* the polls have returned are exactly the newline-terminated lines of the
\* bytes read, each once and in order, and a poll reads all that is written;
\* the unterminated trailing fragment is in no returned line: it stays in
\* the buffer until its newline arrives or drain_buffer hands it out.
C30_PollReturnsCompleteLinesOnce ==
    [][/\ tailer'.lines
            = LinesWritten(SubSeq(tailer'.file, 1, tailer'.offset))
       /\ tailer'.offset # tailer.offset => tailer'.offset = Len(tailer.file)
       /\ IF tailer'.closed
          THEN tailer'.drained
                   = Fragment(SubSeq(tailer'.file, 1, tailer'.offset))
          ELSE tailer'.buffer
                   = Fragment(SubSeq(tailer'.file, 1, tailer'.offset))]_vars

\* The polls returned the first line of the file, and the two bytes written
\* after it, which no newline ends yet, are buffered and in no returned line.
C30_Witness ==
    /\ tailer.file = <<"a", Newline, "b", "a">>
    /\ tailer.offset = 4
    /\ tailer.lines = <<(<<"a">>)>>
    /\ tailer.buffer = <<"b", "a">>

\* Both lines of a four-byte file, written in appends of at most MaxChunk
\* bytes, were returned, each once.
C30_WitnessSplit ==
    /\ tailer.file = <<"a", Newline, "b", Newline>>
    /\ tailer.lines = <<(<<"a">>), (<<"b">>)>>
    /\ ~tailer.closed

\* The HTTP turns that are inside acquire or hold the server.
Acquiring == {r \in Runs : mode[r] = "opencode" /\ pc[r] = "oc_acq"}
Holding == {r \in Runs : mode[r] = "opencode" /\ pc[r] \in {"oc_held", "http"}}

\* The number of consumers that hold the server after a successful acquire.
Holders ==
    Cardinality(Holding) + (IF server.oneshot = "holding" THEN 1 ELSE 0)

\* The number of consumers between the increment of acquire and their
\* release (or the roll-back of a failed acquire).
Consumers ==
    Holders + Cardinality(Acquiring)
        + (IF server.oneshot = "acquiring" THEN 1 ELSE 0)

\* C31: the release path shuts the managed server down only when no consumer
\* that has acquired it is still to release it: a delayed-shutdown thread
\* never stops the server while a consumer holds it.
C31_NoStopWhileHeld ==
    [][server'.checked < server.checked /\ server.child # "none"
          => Holders = 0]_vars

\* C32: the usage count equals the number of consumers between acquire and
\* release, and is never negative: every successful acquire is released
\* once on every exit, and a failed acquire takes its increment back.
C32_CountIsConsumers ==
    /\ server.count = Consumers
    /\ server.count >= 0

\* Both kinds of consumer hold the server at once.
C32_Witness ==
    /\ server.count = 2
    /\ server.oneshot = "holding"
    /\ pc[1] = "http"

\* The turn failed inside acquire, the one-shot call acquired and released,
\* and the count is back to 0.
C32_WitnessReleased ==
    /\ server.count = 0
    /\ server.shots = 1
    /\ server.oneshot = "idle"
    /\ server.child = "up"
    /\ pc[1] = "failed"
    /\ tl[1].why = "acquire"

\* C37: cleanup_orphaned_server kills no server and keeps the pid file while
\* the Jean process recorded in it is alive; when that process is dead it
\* kills the recorded server exactly if the server's pid is alive and the
\* recorded port passes the health check, and it removes the pid file in
\* every such case.
C37_CleanupRespectsOwner ==
    [][host' = "booted" /\ server.pidfile = "rec" /\ server'.boot.file = "rec"
          => LET b == server'.boot
             IN IF b.owner_alive
                THEN ~b.killed /\ server'.pidfile = "rec"
                     /\ server'.orphan = OrphanLeft(b)
                ELSE /\ b.killed <=> (b.server_alive /\ b.healthy)
                     /\ b.killed => server'.orphan = "none"
                     /\ server'.pidfile = "none"]_vars

\* The host restarted while its server was up: the owner is dead, the
\* orphan was alive and healthy, it was killed and the pid file removed.
C37_Witness ==
    /\ host = "booted"
    /\ server.boot.file = "rec"
    /\ ~server.boot.owner_alive
    /\ server.boot.killed
    /\ server.pidfile = "none"
    /\ server.orphan = "none"

\* The recorded Jean process is alive: the healthy server is left running
\* and the pid file is kept.
C37_WitnessOwnerAlive ==
    /\ host = "booted"
    /\ server.boot.file = "rec"
    /\ server.boot.owner_alive
    /\ server.boot.healthy
    /\ server.pidfile = "rec"
    /\ server.orphan = "up"

\* The dead owner's server pid is alive but the port does not answer (the
\* pid was recycled): nothing is killed and the pid file is removed.
C37_WitnessRecycled ==
    /\ host = "booted"
    /\ server.boot.file = "rec"
    /\ ~server.boot.owner_alive
    /\ server.boot.server_alive
    /\ ~server.boot.healthy
    /\ ~server.boot.killed
    /\ server.pidfile = "none"

\* The content blocks of the assistant messages among lines, in order.
RECURSIVE AllBlocks(_)
AllBlocks(lines) ==
    IF lines = <<>> THEN <<>>
    ELSE (IF Head(lines).type = "assistant" THEN Head(lines).content
          ELSE <<>>) \o AllBlocks(Tail(lines))

\* The concatenation of the texts of a sequence of text blocks.
RECURSIVE ConcatText(_)
ConcatText(blocks) ==
    IF blocks = <<>> THEN <<>>
    ELSE Head(blocks).text \o ConcatText(Tail(blocks))

Newest(runs, i) == \A j \in 1..(i - 1) : runs[j].workflow_name # runs[i].workflow_name

\* C34: for a list of workflow runs ordered newest first, failed_count is
\* the number of distinct workflow names whose newest run in the list has
\* conclusion failure or startup_failure; older failures of a workflow whose
\* newest run succeeded or is in progress are not counted.
C34_FailedCountIsLatestFailures ==
    workflow.failed_count # NotCounted =>
        workflow.failed_count =
            Cardinality({n \in Workflows :
                \E i \in 1..Len(workflow.runs) :
                    /\ workflow.runs[i].workflow_name = n
                    /\ Newest(workflow.runs, i)
                    /\ workflow.runs[i].conclusion
                           \in {"failure", "startup_failure"}})

\* The newest CI run succeeded after an older failure, the newest Deploy run
\* failed at startup: one workflow is counted.
C34_Witness ==
    /\ workflow.runs = <<[workflow_name |-> "CI", conclusion |-> "success"],
                         [workflow_name |-> "Deploy",
                          conclusion |-> "startup_failure"],
                         [workflow_name |-> "CI", conclusion |-> "failure"]>>
    /\ workflow.failed_count = 1

\* C35: for a Codex run chat:done and chat:error are mutually exclusive: if
\* chat:error was emitted for the run, by the tailer or by the driver that
\* wraps it, no chat:done is emitted for it; and chat:done is never emitted
\* for a cancelled run.
C35_DoneAndErrorExclusive ==
    \A r \in Runs :
        BackendOf(mode[r]) = "codex" /\ drv[r] = "turn" =>
            /\ ~(tl[r].n_error > 0 /\ tl[r].n_done > 0)
            /\ tl[r].cancelled => tl[r].n_done = 0

\* C38: an attached run whose stdout reached end-of-stream before a
\* turn.completed, turn.failed or error record was read is reported with
\* cancelled = true and is never finalized as Completed.
C38_EofBeforeTerminalIsCancelled ==
    \A r \in Runs :
        /\ mode[r] = "codex_attached"
        /\ drv[r] = "turn"
        /\ tl[r].why = "eof"
        /\ ~tl[r].completed
        /\ pc[r] \in {"tail_ok", "wait_child", "ret_ok", "done"}
        => /\ tl[r].cancelled
           /\ metadata[r].status # "Completed"

\* C36: the pid of every external process spawned for a turn is written to
\* the run's metadata record after the spawn and before the registry entry
\* is made and the tailer starts, in detached and attached modes alike, so
\* that the record of a run that is being tailed has its pid.
C36_PidPersistedBeforeTailing ==
    \A r \in Runs :
        /\ drv[r] = "turn"
        /\ pc[r] \in {"register", "tail", "atail"}
        /\ metadata[r].status # Absent
        => metadata[r].pid = r

\* ------------------------------------------------------------ termination
\* The last sampled instant.
LastInstant == CHOOSE t \in Instants : \A u \in Instants : u <= t

\* An Instant seen from an origin moved forward by d.  The loops read only
\* Instant::elapsed(), and an age beyond every threshold stays beyond it.
Rebased(ts, d) ==
    IF ts - d < 0 - LastInstant THEN 0 - LastInstant ELSE ts - d

\* Time passes beyond the last sampled instant: the origin of the clock is
\* moved to the present, which keeps every elapsed() a loop can compare.
ClockWraps ==
    /\ now = LastInstant
    /\ \E r \in Runs : pc[r] = "tail"
    /\ now' = 0
    /\ tl' = [r \in Runs |->
                IF pc[r] = "tail"
                THEN [tl[r] EXCEPT !.started_at = Rebased(@, now),
                                   !.last_output = Rebased(@, now)]
                ELSE tl[r]]
    /\ UNCHANGED <<metadata, output, proc, registry, pc, drv, mode, rs, host,
                   session, thread, tailer, server, cli, workflow>>

\* The records that matter to the loop's exits: output that is not
\* terminal, an unparseable line, and the terminal record of each backend.
LiveRecords ==
    {Rec("text", 3), Rec("garbage", 0), Rec("result", 0), Rec("result", 2)}

\* One instant past each threshold of the timeout check.
LiveInstants ==
    {0, DeadProcessTimeout + 1, StartupGrace + 1, StartupTimeout + 1}

\* One detached turn under an unbounded clock.
LiveNext ==
    \/ \E m \in DetachedModes : SendChatMessage(1, m)
    \/ DetachedDrive(1)
    \/ \E rec \in LiveRecords : ProcWrite(1, rec)
    \/ ProcExit(1)
    \/ \E t \in LiveInstants : Tick(t)
    \/ ClockWraps
    \/ cancel_process

\* The tailer thread keeps looping (it sleeps 50 ms between polls) and the
\* wall clock keeps advancing.
LiveSpec ==
    /\ Init
    /\ [][LiveNext]_vars
    /\ WF_vars(TailIteration(1))
    /\ WF_vars(\E t \in LiveInstants : Tick(t))
    /\ WF_vars(ClockWraps)

\* C39: every detached tailer loop terminates once the external process
\* has exited or the session's registry entry has been removed; a loop that
\* has received no output leaves the startup tier (it ends or receives
\* output) even if neither happens, at the first poll after the 120 s
\* startup timeout.
C39_TailerTerminates ==
    /\ (pc[1] = "tail" /\ proc[1] # "alive") ~> (pc[1] # "tail")
    /\ (pc[1] = "tail" /\ registry = NoPid) ~> (pc[1] # "tail")
    /\ (pc[1] = "tail" /\ ~tl[1].received)
           ~> (pc[1] # "tail" \/ tl[1].received)
    /\ [][(/\ pc[1] = "tail"
           /\ ~tl[1].received
           /\ now - tl[1].started_at > StartupTimeout
           /\ now' = now
           /\ tl' # tl)
          => (pc'[1] # "tail" \/ tl'[1].received)]_vars

\* The process exited after its output was received, the clock wrapped,
\* and the loop ended on the dead-process timeout.
C39_Witness ==
    /\ pc[1] = "post"
    /\ tl[1].why = "timeout"
    /\ tl[1].received
    /\ proc[1] = "dead"
    /\ tl[1].last_output < 0

\* No cancellation was requested: cancel_process signalled no process.
NoCancelRequested == \A q \in Runs : proc[q] # "killed"

\* C40: when resume_session has resumed several Resumable runs of the
\* session and nobody cancels, no resumed tailer ends on a cancellation it
\* read from the registry, and while a resumed tailer is in its loop the
\* registry entry of the session names a run that is still being tailed.
C40_ResumedTailersIndependent ==
    ((\A q \in Runs : drv[q] = "resume") /\ NoCancelRequested) =>
        \A r \in Runs :
            /\ tl[r].why # "registry"
            /\ pc[r] = "tail" => (registry # NoPid /\ pc[registry] = "tail")
====
